---- MODULE Spec2Model ----
(***************************************************************************)
(* coretrace-logger: the process-wide logging state machine of             *)
(* src/README.md (the body of logger.cpp, lines 237-1039) and the log()    *)
(* templates of src/include/coretrace/logger.hpp.                          *)
(*                                                                         *)
(* Strings are sequences of one-character strings.  Threads run the public *)
(* operations one shared-memory access (atomic load/store, mutex lock,     *)
(* sink invocation) per step.  Colour output is off (stderr is not a       *)
(* terminal), so every write_str(color(..)) writes the empty string and    *)
(* returns without reaching the sink.  Module names and prefixes passed to *)
(* the API contain no NUL byte.                                            *)
(***************************************************************************)
EXTENDS Integers, Sequences, FiniteSets, TLC

\* ------------------------------------------------------------------------
\*  Program constants
\* ------------------------------------------------------------------------

MAX_MODULES == 32

MODULE_NAME_LEN == 32

PREFIX_BUF_SIZE == 64

Info == 0

Warn == 1

Error == 2

Levels == {Info, Warn, Error}

\* ------------------------------------------------------------------------
\*  Bounds of the model
\* ------------------------------------------------------------------------

\* calls each thread of a concurrent scenario makes
MaxCalls == 2

\* failing write(2) calls considered within one log call
MaxWriteErrors == 1

\* ------------------------------------------------------------------------
\*  Strings
\* ------------------------------------------------------------------------

NUL == "\\0"

UpperCase ==
  << "A","B","C","D","E","F","G","H","I","J","K","L","M",
     "N","O","P","Q","R","S","T","U","V","W","X","Y","Z" >>

LowerCase ==
  << "a","b","c","d","e","f","g","h","i","j","k","l","m",
     "n","o","p","q","r","s","t","u","v","w","x","y","z" >>

Digits == << "0","1","2","3","4","5","6","7","8","9" >>

\* c >= 'A' && c <= 'Z' ? c + 32 : c
ToLower(c) ==
  IF \E i \in 1..26 : UpperCase[i] = c
    THEN LowerCase[CHOOSE i \in 1..26 : UpperCase[i] = c]
    ELSE c

\* the bytes of a char buffer up to its first NUL (a C string read back)
RECURSIVE CStr(_)
CStr(buf) ==
  IF buf = << >> \/ Head(buf) = NUL THEN << >>
  ELSE << Head(buf) >> \o CStr(Tail(buf))

\* a string n times
RECURSIVE Repeat(_, _)
Repeat(s, n) == IF n = 0 THEN << >> ELSE s \o Repeat(s, n - 1)

RECURSIVE sv_eq_from(_, _, _)
sv_eq_from(a, b, i) ==
  IF i > Len(a) THEN TRUE
  ELSE IF a[i] # b[i] THEN FALSE
  ELSE sv_eq_from(a, b, i + 1)

sv_eq_len_only(a, b) == Len(a) = Len(b)

sv_eq(a, b) ==
  IF Len(a) # Len(b) THEN FALSE ELSE sv_eq_from(a, b, 1)

RECURSIVE cstr_ieq(_, _)
cstr_ieq(a, b) ==
  IF a # << >> /\ b # << >>
    THEN IF ToLower(Head(a)) # ToLower(Head(b)) THEN FALSE
         ELSE cstr_ieq(Tail(a), Tail(b))
    ELSE a = << >> /\ b = << >>

\* write_dec: the decimal digits of value, most significant first
RECURSIVE DecDigits(_)
DecDigits(value) ==
  IF value = 0 THEN << >>
  ELSE DecDigits(value \div 10) \o << Digits[(value % 10) + 1] >>

write_dec_bytes(value) ==
  IF value = 0 THEN << "0" >> ELSE DecDigits(value)

\* the part of path after its last '/'
RECURSIVE basename_from(_, _)
basename_from(path, last) ==
  IF path = << >> THEN last
  ELSE IF Head(path) = "/" THEN basename_from(Tail(path), Tail(path))
  ELSE basename_from(Tail(path), last)

basename_of(path) == basename_from(path, path)

level_label(level) ==
  CASE level = Info  -> << "I","N","F","O" >>
    [] level = Warn  -> << "W","A","R","N" >>
    [] level = Error -> << "E","R","R","O","R" >>
    [] OTHER         -> << "I","N","F","O" >>

TwoDigits(n) == << Digits[(n \div 10) + 1], Digits[(n % 10) + 1] >>

\* [YYYY-MM-DDThh:mm:ss.mmm] and one space, from a broken-down UTC time
write_timestamp_to(tm) ==
  << "[" >>
  \o << Digits[(tm.year \div 1000) + 1], Digits[((tm.year \div 100) % 10) + 1],
        Digits[((tm.year \div 10) % 10) + 1], Digits[(tm.year % 10) + 1] >>
  \o << "-" >> \o TwoDigits(tm.mon) \o << "-" >> \o TwoDigits(tm.mday)
  \o << "T" >> \o TwoDigits(tm.hour) \o << ":" >> \o TwoDigits(tm.min)
  \o << ":" >> \o TwoDigits(tm.sec) \o << "." >>
  \o << Digits[(tm.millis \div 100) + 1], Digits[((tm.millis \div 10) % 10) + 1],
        Digits[(tm.millis % 10) + 1] >>
  \o << "]", " " >>

\* ------------------------------------------------------------------------
\*  Values used by the scenarios
\* ------------------------------------------------------------------------

s_alloc == << "a","l","l","o","c" >>

s_Alloc == << "A","l","l","o","c" >>

s_trace == << "t","r","a","c","e" >>

s_network == << "n","e","t","w","o","r","k" >>

s_stress == << "s","t","r","e","s","s" >>

s_empty == << >>

s_default_prefix == << "=","=","c","t","=","=" >>

s_alpha == << "=","=","a","l","p","h","a","=","=" >>

s_beta == << "=","=","b","e","t","a","=","=" >>

s_warn == << "w","a","r","n" >>

s_error == << "e","r","r","o","r" >>

s_WARN == << "W","A","R","N" >>

s_Error == << "E","r","r","o","r" >>

s_info == << "i","n","f","o" >>

s_debug == << "d","e","b","u","g" >>

s_warning == s_warn \o << "i","n","g" >>

s_msg == << "h","i","\n" >>

s_fallback ==
  << "c","o","r","e","t","r","a","c","e",":"," ","l","o","g"," ",
     "f","o","r","m","a","t"," ","e","r","r","o","r","\n" >>

s_file == << "s","r","c","/","m","a","i","n",".","c","p","p" >>

\* the token "m" followed by the two digits of i
EnvToken(i) == << "m" >> \o TwoDigits(i)

\* "m01,m02,...,m<n>"
RECURSIVE EnvList(_)
EnvList(n) ==
  IF n = 0 THEN << >>
  ELSE IF n = 1 THEN EnvToken(1)
  ELSE EnvList(n - 1) \o << "," >> \o EnvToken(n)

\* CT_DEBUG=alloc,,trace
s_env_alloc_trace == s_alloc \o << ",", "," >> \o s_trace

\* an environment variable: unset, or set to a C string
Unset == [set |-> FALSE, val |-> << >>]

SetTo(s) == [set |-> TRUE, val |-> s]

\* ------------------------------------------------------------------------
\*  State
\* ------------------------------------------------------------------------

VARIABLES
  g_log_enabled,               \* int g_log_enabled
  g_prefix_buf,                \* char g_prefix_buf[64], up to its NUL
  g_prefix_len,                \* size_t g_prefix_len
  g_min_level,                 \* int g_min_level
  g_min_level_set_explicitly,  \* int g_min_level_set_explicitly
  g_modules,                   \* ModuleTable g_modules
  g_modules_set_explicitly,    \* int g_modules_set_explicitly
  g_state_mutex,               \* owner of g_state_mutex, 0 when free
  g_output_mutex,              \* owner of g_output_mutex, 0 when free
  g_thread_safe,               \* int g_thread_safe
  g_sink,                      \* SinkFn g_sink, 0 is nullptr (stderr)
  g_timestamps_enabled,        \* int g_timestamps_enabled
  g_source_location_enabled,   \* int g_source_location_enabled
  g_init_once,                 \* pthread_once_t g_init_once
  env,                         \* the process environment (CT_LOG_LEVEL, CT_DEBUG)
  sys,                         \* getpid() and the wall clock
  pc,                          \* where each thread is
  call,                        \* the arguments of each thread's current call
  loc,                         \* the locals of each thread's current call
  line,                        \* the sink invocations of each thread's current call
  calls,                       \* calls each thread may still start (-1: no limit)
  hist                         \* history of the run, read by the properties only

globals ==
  << g_log_enabled, g_prefix_buf, g_prefix_len, g_min_level,
     g_min_level_set_explicitly, g_modules, g_modules_set_explicitly,
     g_state_mutex, g_output_mutex, g_thread_safe, g_sink,
     g_timestamps_enabled, g_source_location_enabled, g_init_once >>

vars == << globals, env, sys, pc, call, loc, line, calls, hist >>

Threads == {1, 2, 3}

\* custom sink functions (0 is nullptr)
Sinks == {1, 2}

NoCall ==
  [op |-> "none", level |-> Info, tagged |-> FALSE, mod |-> << >>,
   arg |-> << >>]

\* (had: whether the name was registered when enable_module was entered or
\* when disable_module searched the table, read by the properties only)
NoLoc ==
  [after |-> "none", en |-> -1, min |-> -1, modok |-> -1, snap |-> << >>,
   render |-> "none", locked |-> -1, pend |-> << >>, result |-> -1,
   had |-> -1]

NoHist ==
  [init_runs |-> 0,          \* times the body of init_from_env was entered
   past_once_early |-> FALSE, \* a call went past init_once before the run ended
   explicit_level |-> -1,    \* level of the latest set_min_level store
   env_level_marked |-> FALSE, \* CT_LOG_LEVEL was stored with the level marker at 1
   seeded |-> 0,             \* names the CT_DEBUG seeding inserted
   seeded_marked |-> FALSE,  \* ... while g_modules_set_explicitly was 1
   seeded_returned |-> FALSE, \* ... after an explicit module call passed init_once
   explicit_passed |-> FALSE, \* an explicit module call has passed init_once
   ever_enabled |-> FALSE,   \* enable_logging was called
   ts_off |-> FALSE,         \* set_thread_safe(false) was called
   overlap |-> {},           \* <<t, u, kind>>: t wrote inside u's line
   last_prefix |-> s_default_prefix, \* argument of the latest set_prefix store
   failed |-> {}]            \* <<t, k>>: the k-th write_raw of t's call failed

\* ModuleTable g_modules{}: names[i] is kept as the buffer up to and
\* including its NUL; entries at index >= count are never read and dropped.
EmptyTable == [names |-> << >>, count |-> 0, filter_active |-> 0]

InitGlobals ==
  /\ g_log_enabled = 0
  /\ g_prefix_buf = s_default_prefix \o << NUL >>
  /\ g_prefix_len = 6
  /\ g_min_level = Info
  /\ g_min_level_set_explicitly = 0
  /\ g_modules = EmptyTable
  /\ g_modules_set_explicitly = 0
  /\ g_state_mutex = 0
  /\ g_output_mutex = 0
  /\ g_thread_safe = 1
  /\ g_sink = 0
  /\ g_timestamps_enabled = 0
  /\ g_source_location_enabled = 0
  /\ g_init_once = "INIT"

InitThreads ==
  /\ pc = [t \in Threads |-> "idle"]
  /\ call = [t \in Threads |-> NoCall]
  /\ loc = [t \in Threads |-> NoLoc]
  /\ line = [t \in Threads |-> << >>]
  /\ hist = NoHist

DefaultSys ==
  [pid |-> 4242,
   tm |-> [year |-> 2025, mon |-> 1, mday |-> 15, hour |-> 10, min |-> 45,
           sec |-> 23, millis |-> 456],
   file |-> s_file, srcline |-> 42,
   stderr |-> "ok"]          \* "ok": write(2) takes every byte; "flaky": it may fail

\* ------------------------------------------------------------------------
\*  Module table (state lock held by the caller)
\* ------------------------------------------------------------------------

NameAt(m, i) == CStr(m.names[i])

Registered(m, name) == \E i \in 1..m.count : sv_eq(name, NameAt(m, i))

add_module_locked_off_by_one(m, name) ==
  IF Registered(m, name) THEN m
  ELSE IF m.count < MAX_MODULES - 1
    THEN [names |-> Append(m.names, name \o << NUL >>),
          count |-> m.count + 1, filter_active |-> 1]
    ELSE m

add_module_locked_unbounded(m, name) ==
  IF Registered(m, name) THEN m
  ELSE [names |-> Append(m.names, name \o << NUL >>),
        count |-> m.count + 1, filter_active |-> 1]

add_module_locked_no_scan(m, name) ==
  IF m.count < MAX_MODULES
    THEN [names |-> Append(m.names, name \o << NUL >>),
          count |-> m.count + 1, filter_active |-> 1]
    ELSE m

add_module_locked(m, name) ==
  IF Registered(m, name) THEN m
  ELSE IF m.count < MAX_MODULES
    THEN [names |-> Append(m.names, name \o << NUL >>),
          count |-> m.count + 1, filter_active |-> 1]
    ELSE m

\* the loop of disable_module filling the hole with the last entry
remove_module_locked_swaps_last(m, name) ==
  IF ~Registered(m, name) THEN m
  ELSE LET i == CHOOSE k \in 1..m.count :
                  /\ sv_eq(name, NameAt(m, k))
                  /\ \A j \in 1..(k - 1) : ~sv_eq(name, NameAt(m, j))
       IN [names |-> IF i = m.count THEN SubSeq(m.names, 1, m.count - 1)
                     ELSE SubSeq(m.names, 1, i - 1) \o << m.names[m.count] >>
                          \o SubSeq(m.names, i + 1, m.count - 1),
           count |-> m.count - 1,
           filter_active |-> IF m.count - 1 = 0 THEN 0 ELSE m.filter_active]

\* the loop of disable_module switching the filter off at every removal
remove_module_locked_clears_filter(m, name) ==
  IF ~Registered(m, name) THEN m
  ELSE LET i == CHOOSE k \in 1..m.count :
                  /\ sv_eq(name, NameAt(m, k))
                  /\ \A j \in 1..(k - 1) : ~sv_eq(name, NameAt(m, j))
       IN [names |-> SubSeq(m.names, 1, i - 1) \o SubSeq(m.names, i + 1, m.count),
           count |-> m.count - 1,
           filter_active |-> 0]

remove_module_locked_drops_last(m, name) ==
  IF m.count = 0 THEN m
  ELSE [names |-> SubSeq(m.names, 1, m.count - 1),
        count |-> m.count - 1,
        filter_active |-> IF m.count - 1 = 0 THEN 0 ELSE m.filter_active]

remove_module_locked_keeps_filter(m, name) ==
  IF ~Registered(m, name) THEN m
  ELSE LET i == CHOOSE k \in 1..m.count :
                  /\ sv_eq(name, NameAt(m, k))
                  /\ \A j \in 1..(k - 1) : ~sv_eq(name, NameAt(m, j))
       IN [names |-> SubSeq(m.names, 1, i - 1) \o SubSeq(m.names, i + 1, m.count),
           count |-> m.count - 1,
           filter_active |-> m.filter_active]

\* the loop of disable_module: drop the first entry equal to name
remove_module_locked(m, name) ==
  IF ~Registered(m, name) THEN m
  ELSE LET i == CHOOSE k \in 1..m.count :
                  /\ sv_eq(name, NameAt(m, k))
                  /\ \A j \in 1..(k - 1) : ~sv_eq(name, NameAt(m, j))
       IN [names |-> SubSeq(m.names, 1, i - 1) \o SubSeq(m.names, i + 1, m.count),
           count |-> m.count - 1,
           filter_active |-> IF m.count - 1 = 0 THEN 0 ELSE m.filter_active]

clear_modules_locked(m) == [names |-> << >>, count |-> 0, filter_active |-> 0]

module_lookup_ignores_filter(m, name) == Registered(m, name)

module_lookup_always(m, name) == TRUE

module_lookup(m, name) ==
  IF m.filter_active = 0 THEN TRUE ELSE Registered(m, name)

\* the token of s before its first ','
RECURSIVE TokenOf(_)
TokenOf(s) ==
  IF s = << >> \/ Head(s) = "," THEN << >>
  ELSE << Head(s) >> \o TokenOf(Tail(s))

seed_token_any_length(m, start) ==
  LET tok == TokenOf(start)
  IN IF Len(tok) > 0 THEN add_module_locked(m, tok) ELSE m

\* one turn of the CT_DEBUG loop of init_from_env: the token at start is
\* registered if (len > 0 && len < MODULE_NAME_LEN)
seed_token(m, start) ==
  LET tok == TokenOf(start)
  IN IF Len(tok) > 0 /\ Len(tok) < MODULE_NAME_LEN
       THEN add_module_locked(m, tok) ELSE m

\* start = *end ? end + 1 : end
seed_next(start) ==
  LET end == SubSeq(start, Len(TokenOf(start)) + 1, Len(start))
  IN IF end # << >> THEN Tail(end) ELSE end

\* the CT_LOG_LEVEL branch with strcmp in place of cstr_ieq
env_level_value_case_sensitive(s) ==
  IF sv_eq(s, s_warn) THEN Warn
  ELSE IF sv_eq(s, s_error) THEN Error
  ELSE Info

\* the CT_LOG_LEVEL branch of init_from_env
env_level_value(s) ==
  IF cstr_ieq(s, s_warn) THEN Warn
  ELSE IF cstr_ieq(s, s_error) THEN Error
  ELSE Info

\* ------------------------------------------------------------------------
\*  Steps common to every call
\* ------------------------------------------------------------------------

\* thread t starts a call
Begin(t) ==
  /\ pc[t] = "idle"
  /\ calls[t] # 0
  /\ calls' = [calls EXCEPT ![t] = IF @ < 0 THEN @ ELSE @ - 1]

\* the call of thread t has returned; its locals die
Return(t) ==
  /\ pc[t] = "ret"
  /\ pc' = [pc EXCEPT ![t] = "idle"]
  /\ call' = [call EXCEPT ![t] = NoCall]
  /\ loc' = [loc EXCEPT ![t] = NoLoc]
  /\ line' = [line EXCEPT ![t] = << >>]
  /\ hist' = [hist EXCEPT !.overlap = {o \in @ : o[1] # t /\ o[2] # t},
                          !.failed = {f \in @ : f[1] # t}]
  /\ UNCHANGED << globals, env, sys, calls >>

\* ------------------------------------------------------------------------
\*  Atomic flags
\* ------------------------------------------------------------------------

enable_logging(t) ==
  /\ Begin(t)
  /\ g_log_enabled' = 1
  /\ hist' = [hist EXCEPT !.ever_enabled = TRUE]
  /\ UNCHANGED << g_prefix_buf, g_prefix_len, g_min_level,
                  g_min_level_set_explicitly, g_modules, g_modules_set_explicitly,
                  g_state_mutex, g_output_mutex, g_thread_safe, g_sink,
                  g_timestamps_enabled, g_source_location_enabled, g_init_once,
                  env, sys, pc, call, loc, line >>

disable_logging(t) ==
  /\ Begin(t)
  /\ g_log_enabled' = 0
  /\ UNCHANGED << g_prefix_buf, g_prefix_len, g_min_level,
                  g_min_level_set_explicitly, g_modules, g_modules_set_explicitly,
                  g_state_mutex, g_output_mutex, g_thread_safe, g_sink,
                  g_timestamps_enabled, g_source_location_enabled, g_init_once,
                  env, sys, pc, call, loc, line, hist >>

set_thread_safe(t, enabled) ==
  /\ Begin(t)
  /\ g_thread_safe' = IF enabled THEN 1 ELSE 0
  /\ hist' = [hist EXCEPT !.ts_off = @ \/ ~enabled]
  /\ UNCHANGED << g_log_enabled, g_prefix_buf, g_prefix_len, g_min_level,
                  g_min_level_set_explicitly, g_modules, g_modules_set_explicitly,
                  g_state_mutex, g_output_mutex, g_sink,
                  g_timestamps_enabled, g_source_location_enabled, g_init_once,
                  env, sys, pc, call, loc, line >>

\* set_sink(fn); reset_sink() is set_sink(nullptr)
set_sink(t, fn) ==
  /\ Begin(t)
  /\ g_sink' = fn
  /\ UNCHANGED << g_log_enabled, g_prefix_buf, g_prefix_len, g_min_level,
                  g_min_level_set_explicitly, g_modules, g_modules_set_explicitly,
                  g_state_mutex, g_output_mutex, g_thread_safe,
                  g_timestamps_enabled, g_source_location_enabled, g_init_once,
                  env, sys, pc, call, loc, line, hist >>

set_timestamps(t, enabled) ==
  /\ Begin(t)
  /\ g_timestamps_enabled' = IF enabled THEN 1 ELSE 0
  /\ UNCHANGED << g_log_enabled, g_prefix_buf, g_prefix_len, g_min_level,
                  g_min_level_set_explicitly, g_modules, g_modules_set_explicitly,
                  g_state_mutex, g_output_mutex, g_thread_safe, g_sink,
                  g_source_location_enabled, g_init_once,
                  env, sys, pc, call, loc, line, hist >>

set_source_location(t, enabled) ==
  /\ Begin(t)
  /\ g_source_location_enabled' = IF enabled THEN 1 ELSE 0
  /\ UNCHANGED << g_log_enabled, g_prefix_buf, g_prefix_len, g_min_level,
                  g_min_level_set_explicitly, g_modules, g_modules_set_explicitly,
                  g_state_mutex, g_output_mutex, g_thread_safe, g_sink,
                  g_timestamps_enabled, g_init_once,
                  env, sys, pc, call, loc, line, hist >>

\* Level min_level(): one atomic load, no init_once
min_level(t) ==
  /\ Begin(t)
  /\ pc' = [pc EXCEPT ![t] = "ret"]
  /\ call' = [call EXCEPT ![t] = [NoCall EXCEPT !.op = "min_level"]]
  /\ loc' = [loc EXCEPT ![t] = [NoLoc EXCEPT !.result = g_min_level]]
  /\ UNCHANGED << globals, env, sys, line, hist >>

\* ------------------------------------------------------------------------
\*  init_once / init_from_env
\* ------------------------------------------------------------------------

once_may_run_unguarded(state) == state # "DONE"

\* pthread_once starts the routine for the first caller only
once_may_run(state) == state = "INIT"

once_may_pass_while_running(state) == state # "INIT"

\* pthread_once returns to the other callers once the routine has returned
once_may_pass(state) == state = "DONE"

init_once_run(t) ==
  /\ pc[t] = "init_once"
  /\ once_may_run(g_init_once)
  /\ g_init_once' = "RUNNING"
  /\ pc' = [pc EXCEPT ![t] = "ie_level_check"]
  /\ hist' = [hist EXCEPT !.init_runs = @ + 1]
  /\ UNCHANGED << g_log_enabled, g_prefix_buf, g_prefix_len, g_min_level,
                  g_min_level_set_explicitly, g_modules, g_modules_set_explicitly,
                  g_state_mutex, g_output_mutex, g_thread_safe, g_sink,
                  g_timestamps_enabled, g_source_location_enabled,
                  env, sys, call, loc, line, calls >>

ExplicitModuleOps == {"enable_module", "disable_module", "enable_all_modules"}

init_once_pass(t) ==
  /\ pc[t] = "init_once"
  /\ once_may_pass(g_init_once)
  /\ pc' = [pc EXCEPT ![t] = loc[t].after]
  /\ hist' = [hist EXCEPT
       !.past_once_early = @ \/ g_init_once # "DONE",
       !.explicit_passed = @ \/ call[t].op \in ExplicitModuleOps]
  /\ UNCHANGED << globals, env, sys, call, loc, line, calls >>

level_default_ignores_marker(explicitly) == TRUE

\* if (g_min_level_set_explicitly == 0)
level_default_applies(explicitly) == explicitly = 0

ie_level_check(t) ==
  /\ pc[t] = "ie_level_check"
  /\ pc' = [pc EXCEPT ![t] =
       IF level_default_applies(g_min_level_set_explicitly)
         THEN "ie_level_apply" ELSE "ie_modules_check"]
  /\ UNCHANGED << globals, env, sys, call, loc, line, calls, hist >>

ie_level_apply(t) ==
  /\ pc[t] = "ie_level_apply"
  /\ g_min_level' = IF env.CT_LOG_LEVEL.set
                      THEN env_level_value(env.CT_LOG_LEVEL.val)
                      ELSE g_min_level
  /\ hist' = [hist EXCEPT !.env_level_marked =
       @ \/ (env.CT_LOG_LEVEL.set /\ g_min_level_set_explicitly = 1)]
  /\ pc' = [pc EXCEPT ![t] = "ie_modules_check"]
  /\ UNCHANGED << g_log_enabled, g_prefix_buf, g_prefix_len,
                  g_min_level_set_explicitly, g_modules, g_modules_set_explicitly,
                  g_state_mutex, g_output_mutex, g_thread_safe, g_sink,
                  g_timestamps_enabled, g_source_location_enabled, g_init_once,
                  env, sys, call, loc, line, calls >>

modules_default_ignores_marker(explicitly, debug) == debug.set /\ debug.val # << >>

\* if (g_modules_set_explicitly == 0) and CT_DEBUG is set and not empty
modules_default_applies(explicitly, debug) ==
  explicitly = 0 /\ debug.set /\ debug.val # << >>

ie_modules_check(t) ==
  /\ pc[t] = "ie_modules_check"
  /\ pc' = [pc EXCEPT ![t] =
       IF modules_default_applies(g_modules_set_explicitly, env.CT_DEBUG)
         THEN "ie_modules_lock" ELSE "ie_return"]
  /\ loc' = [loc EXCEPT ![t].pend =
       IF modules_default_applies(g_modules_set_explicitly, env.CT_DEBUG)
         THEN env.CT_DEBUG.val ELSE << >>]
  /\ UNCHANGED << globals, env, sys, call, line, calls, hist >>

state_lock_leaked(t) == t

\* ~StateLockGuard(): pthread_mutex_unlock(&g_state_mutex) leaves it free
StateUnlock(t) == 0

\* a guard that goes on without the mutex
state_lock_not_taken(t, next) ==
  /\ pc' = [pc EXCEPT ![t] = next]
  /\ UNCHANGED << g_log_enabled, g_prefix_buf, g_prefix_len, g_min_level,
                  g_min_level_set_explicitly, g_modules, g_modules_set_explicitly,
                  g_state_mutex, g_output_mutex, g_thread_safe, g_sink,
                  g_timestamps_enabled, g_source_location_enabled, g_init_once,
                  env, sys, call, loc, line, calls, hist >>

\* StateLockGuard guard
StateLock(t, next) ==
  /\ g_state_mutex = 0
  /\ g_state_mutex' = t
  /\ pc' = [pc EXCEPT ![t] = next]
  /\ UNCHANGED << g_log_enabled, g_prefix_buf, g_prefix_len, g_min_level,
                  g_min_level_set_explicitly, g_modules, g_modules_set_explicitly,
                  g_output_mutex, g_thread_safe, g_sink,
                  g_timestamps_enabled, g_source_location_enabled, g_init_once,
                  env, sys, call, loc, line, calls, hist >>

ie_modules_lock(t) ==
  /\ pc[t] = "ie_modules_lock"
  /\ StateLock(t, "ie_modules_seed")

\* one turn of while (*start); the guard unlocks when the loop ends
ie_modules_seed(t) ==
  /\ pc[t] = "ie_modules_seed"
  /\ g_modules' = seed_token(g_modules, loc[t].pend)
  /\ loc' = [loc EXCEPT ![t].pend = seed_next(@)]
  /\ IF seed_next(loc[t].pend) = << >>
       THEN /\ g_state_mutex' = StateUnlock(t)
            /\ pc' = [pc EXCEPT ![t] = "ie_return"]
       ELSE UNCHANGED << g_state_mutex, pc >>
  /\ hist' = [hist EXCEPT
       !.seeded = @ + (g_modules'.count - g_modules.count),
       !.seeded_marked =
          @ \/ (g_modules_set_explicitly = 1 /\ g_modules'.count > g_modules.count),
       !.seeded_returned =
          @ \/ (hist.explicit_passed /\ g_modules'.count > g_modules.count)]
  /\ UNCHANGED << g_log_enabled, g_prefix_buf, g_prefix_len, g_min_level,
                  g_min_level_set_explicitly, g_modules_set_explicitly,
                  g_output_mutex, g_thread_safe, g_sink,
                  g_timestamps_enabled, g_source_location_enabled, g_init_once,
                  env, sys, call, line, calls >>

\* init_from_env has returned: pthread_once marks the control done
ie_return(t) ==
  /\ pc[t] = "ie_return"
  /\ g_init_once' = "DONE"
  /\ pc' = [pc EXCEPT ![t] = loc[t].after]
  /\ hist' = [hist EXCEPT
       !.explicit_passed = @ \/ call[t].op \in ExplicitModuleOps]
  /\ UNCHANGED << g_log_enabled, g_prefix_buf, g_prefix_len, g_min_level,
                  g_min_level_set_explicitly, g_modules, g_modules_set_explicitly,
                  g_state_mutex, g_output_mutex, g_thread_safe, g_sink,
                  g_timestamps_enabled, g_source_location_enabled,
                  env, sys, call, loc, line, calls >>

\* ------------------------------------------------------------------------
\*  set_min_level
\* ------------------------------------------------------------------------

set_min_level_store_only(t, level) ==
  /\ Begin(t)
  /\ g_min_level' = level
  /\ hist' = [hist EXCEPT !.explicit_level = level]
  /\ UNCHANGED << g_log_enabled, g_prefix_buf, g_prefix_len,
                  g_min_level_set_explicitly, g_modules, g_modules_set_explicitly,
                  g_state_mutex, g_output_mutex, g_thread_safe, g_sink,
                  g_timestamps_enabled, g_source_location_enabled, g_init_once,
                  env, sys, pc, call, loc, line >>

\* entry: __atomic_store_n(&g_min_level_set_explicitly, 1), then init_once()
set_min_level(t, level) ==
  /\ Begin(t)
  /\ g_min_level_set_explicitly' = 1
  /\ call' = [call EXCEPT ![t] =
       [NoCall EXCEPT !.op = "set_min_level", !.level = level]]
  /\ loc' = [loc EXCEPT ![t] = [NoLoc EXCEPT !.after = "sml_store"]]
  /\ pc' = [pc EXCEPT ![t] = "init_once"]
  /\ UNCHANGED << g_log_enabled, g_prefix_buf, g_prefix_len, g_min_level,
                  g_modules, g_modules_set_explicitly,
                  g_state_mutex, g_output_mutex, g_thread_safe, g_sink,
                  g_timestamps_enabled, g_source_location_enabled, g_init_once,
                  env, sys, line, hist >>

\* __atomic_store_n(&g_min_level, level)
sml_store(t) ==
  /\ pc[t] = "sml_store"
  /\ g_min_level' = call[t].level
  /\ hist' = [hist EXCEPT !.explicit_level = call[t].level]
  /\ pc' = [pc EXCEPT ![t] = "ret"]
  /\ UNCHANGED << g_log_enabled, g_prefix_buf, g_prefix_len,
                  g_min_level_set_explicitly, g_modules, g_modules_set_explicitly,
                  g_state_mutex, g_output_mutex, g_thread_safe, g_sink,
                  g_timestamps_enabled, g_source_location_enabled, g_init_once,
                  env, sys, call, loc, line, calls >>

\* ------------------------------------------------------------------------
\*  set_prefix
\* ------------------------------------------------------------------------

prefix_len_unclamped(size) == size

\* len = prefix.size(); if (len >= sizeof(g_prefix_buf)) len = sizeof - 1
prefix_len(size) ==
  IF size >= PREFIX_BUF_SIZE THEN PREFIX_BUF_SIZE - 1 ELSE size

set_prefix(t, prefix) ==
  /\ Begin(t)
  /\ call' = [call EXCEPT ![t] =
       [NoCall EXCEPT !.op = "set_prefix", !.arg = prefix]]
  /\ loc' = [loc EXCEPT ![t] = NoLoc]
  /\ pc' = [pc EXCEPT ![t] = "sp_lock"]
  /\ UNCHANGED << globals, env, sys, line, hist >>

sp_lock(t) ==
  /\ pc[t] = "sp_lock"
  /\ StateLock(t, "sp_copy")

\* for (i < len) g_prefix_buf[i] = prefix[i]; g_prefix_buf[len] = '\0';
sp_copy(t) ==
  /\ pc[t] = "sp_copy"
  /\ LET len == prefix_len(Len(call[t].arg))
     IN g_prefix_buf' = SubSeq(call[t].arg, 1, len) \o << NUL >>
  /\ pc' = [pc EXCEPT ![t] = "sp_len"]
  /\ UNCHANGED << g_log_enabled, g_prefix_len, g_min_level,
                  g_min_level_set_explicitly, g_modules, g_modules_set_explicitly,
                  g_state_mutex, g_output_mutex, g_thread_safe, g_sink,
                  g_timestamps_enabled, g_source_location_enabled, g_init_once,
                  env, sys, call, loc, line, calls, hist >>

\* g_prefix_len = len; and the guard's unlock
sp_len(t) ==
  /\ pc[t] = "sp_len"
  /\ g_prefix_len' = prefix_len(Len(call[t].arg))
  /\ g_state_mutex' = StateUnlock(t)
  /\ pc' = [pc EXCEPT ![t] = "ret"]
  /\ hist' = [hist EXCEPT !.last_prefix = call[t].arg]
  /\ UNCHANGED << g_log_enabled, g_prefix_buf, g_min_level,
                  g_min_level_set_explicitly, g_modules, g_modules_set_explicitly,
                  g_output_mutex, g_thread_safe, g_sink,
                  g_timestamps_enabled, g_source_location_enabled, g_init_once,
                  env, sys, call, loc, line, calls >>

\* ------------------------------------------------------------------------
\*  Module filtering
\* ------------------------------------------------------------------------

module_name_any(name) == TRUE

\* !(name.empty() || name.size() >= MODULE_NAME_LEN)
module_name_ok(name) == ~(Len(name) = 0 \/ Len(name) >= MODULE_NAME_LEN)

\* entry: a rejected name returns at once; otherwise the marker is stored
enable_module(t, name) ==
  /\ Begin(t)
  /\ call' = [call EXCEPT ![t] =
       [NoCall EXCEPT !.op = "enable_module", !.arg = name]]
  /\ IF module_name_ok(name)
       THEN /\ g_modules_set_explicitly' = 1
            /\ loc' = [loc EXCEPT ![t] =
                 [NoLoc EXCEPT !.after = "em_lock",
                               !.had = IF Registered(g_modules, name) THEN 1 ELSE 0]]
            /\ pc' = [pc EXCEPT ![t] = "init_once"]
       ELSE /\ g_modules_set_explicitly' = g_modules_set_explicitly
            /\ loc' = [loc EXCEPT ![t] = NoLoc]
            /\ pc' = [pc EXCEPT ![t] = "ret"]
  /\ UNCHANGED << g_log_enabled, g_prefix_buf, g_prefix_len, g_min_level,
                  g_min_level_set_explicitly, g_modules,
                  g_state_mutex, g_output_mutex, g_thread_safe, g_sink,
                  g_timestamps_enabled, g_source_location_enabled, g_init_once,
                  env, sys, line, hist >>

em_lock(t) ==
  /\ pc[t] = "em_lock"
  /\ StateLock(t, "em_add")

\* the body under the state lock, and the guard's unlock
LockedTableUpdate(t, table) ==
  /\ g_modules' = table
  /\ g_state_mutex' = StateUnlock(t)
  /\ pc' = [pc EXCEPT ![t] = "ret"]
  /\ loc' = [loc EXCEPT ![t].had =
       IF call[t].op # "disable_module" THEN @
       ELSE IF Registered(g_modules, call[t].arg) THEN 1 ELSE 0]
  /\ UNCHANGED << g_log_enabled, g_prefix_buf, g_prefix_len, g_min_level,
                  g_min_level_set_explicitly, g_modules_set_explicitly,
                  g_output_mutex, g_thread_safe, g_sink,
                  g_timestamps_enabled, g_source_location_enabled, g_init_once,
                  env, sys, call, line, calls, hist >>

em_add(t) ==
  /\ pc[t] = "em_add"
  /\ LockedTableUpdate(t, add_module_locked(g_modules, call[t].arg))

\* entry: an empty name returns at once; otherwise the marker is stored
disable_module(t, name) ==
  /\ Begin(t)
  /\ call' = [call EXCEPT ![t] =
       [NoCall EXCEPT !.op = "disable_module", !.arg = name]]
  /\ IF Len(name) = 0
       THEN /\ g_modules_set_explicitly' = g_modules_set_explicitly
            /\ loc' = [loc EXCEPT ![t] = NoLoc]
            /\ pc' = [pc EXCEPT ![t] = "ret"]
       ELSE /\ g_modules_set_explicitly' = 1
            /\ loc' = [loc EXCEPT ![t] = [NoLoc EXCEPT !.after = "dm_lock"]]
            /\ pc' = [pc EXCEPT ![t] = "init_once"]
  /\ UNCHANGED << g_log_enabled, g_prefix_buf, g_prefix_len, g_min_level,
                  g_min_level_set_explicitly, g_modules,
                  g_state_mutex, g_output_mutex, g_thread_safe, g_sink,
                  g_timestamps_enabled, g_source_location_enabled, g_init_once,
                  env, sys, line, hist >>

dm_lock(t) ==
  /\ pc[t] = "dm_lock"
  /\ StateLock(t, "dm_remove")

dm_remove(t) ==
  /\ pc[t] = "dm_remove"
  /\ LockedTableUpdate(t, remove_module_locked(g_modules, call[t].arg))

enable_all_modules(t) ==
  /\ Begin(t)
  /\ call' = [call EXCEPT ![t] = [NoCall EXCEPT !.op = "enable_all_modules"]]
  /\ g_modules_set_explicitly' = 1
  /\ loc' = [loc EXCEPT ![t] = [NoLoc EXCEPT !.after = "ea_lock"]]
  /\ pc' = [pc EXCEPT ![t] = "init_once"]
  /\ UNCHANGED << g_log_enabled, g_prefix_buf, g_prefix_len, g_min_level,
                  g_min_level_set_explicitly, g_modules,
                  g_state_mutex, g_output_mutex, g_thread_safe, g_sink,
                  g_timestamps_enabled, g_source_location_enabled, g_init_once,
                  env, sys, line, hist >>

ea_lock(t) ==
  /\ pc[t] = "ea_lock"
  /\ StateLock(t, "ea_clear")

ea_clear(t) ==
  /\ pc[t] = "ea_clear"
  /\ LockedTableUpdate(t, clear_modules_locked(g_modules))

\* a module_is_enabled that calls init_once() first, as the setters do
module_is_enabled_with_init(t, name) ==
  /\ Begin(t)
  /\ call' = [call EXCEPT ![t] =
       [NoCall EXCEPT !.op = "module_is_enabled", !.arg = name]]
  /\ loc' = [loc EXCEPT ![t] = [NoLoc EXCEPT !.after = "mie_lock"]]
  /\ pc' = [pc EXCEPT ![t] = "init_once"]
  /\ UNCHANGED << globals, env, sys, line, hist >>

\* bool module_is_enabled(name), called by the application
module_is_enabled(t, name) ==
  /\ Begin(t)
  /\ call' = [call EXCEPT ![t] =
       [NoCall EXCEPT !.op = "module_is_enabled", !.arg = name]]
  /\ loc' = [loc EXCEPT ![t] = NoLoc]
  /\ pc' = [pc EXCEPT ![t] = "mie_lock"]
  /\ UNCHANGED << globals, env, sys, line, hist >>

mie_lock(t) ==
  /\ pc[t] = "mie_lock"
  /\ StateLock(t, "mie_check")

mie_check(t) ==
  /\ pc[t] = "mie_check"
  /\ g_state_mutex' = StateUnlock(t)
  /\ loc' = [loc EXCEPT ![t].result =
       IF module_lookup(g_modules, call[t].arg) THEN 1 ELSE 0]
  /\ pc' = [pc EXCEPT ![t] = "ret"]
  /\ UNCHANGED << g_log_enabled, g_prefix_buf, g_prefix_len, g_min_level,
                  g_min_level_set_explicitly, g_modules, g_modules_set_explicitly,
                  g_output_mutex, g_thread_safe, g_sink,
                  g_timestamps_enabled, g_source_location_enabled, g_init_once,
                  env, sys, call, line, calls, hist >>

\* ------------------------------------------------------------------------
\*  log(): the two templates of logger.hpp
\* ------------------------------------------------------------------------

\* entry of log(entry, fmt, args...) when tagged is FALSE and of
\* log(entry, mod, fmt, args...) when it is TRUE
log(t, level, tagged, mod) ==
  /\ Begin(t)
  /\ call' = [call EXCEPT ![t] =
       [op |-> "log", level |-> level, tagged |-> tagged,
        mod |-> IF tagged THEN mod ELSE << >>, arg |-> << >>]]
  /\ loc' = [loc EXCEPT ![t] = [NoLoc EXCEPT !.after = "log_enabled"]]
  /\ pc' = [pc EXCEPT ![t] = "init_once"]
  /\ UNCHANGED << globals, env, sys, line, hist >>

log_is_enabled_always(flag) == TRUE

\* bool log_is_enabled(): __atomic_load_n(&g_log_enabled) != 0
log_is_enabled(flag) == flag # 0

\* if (!log_is_enabled()) return;
log_enabled(t) ==
  /\ pc[t] = "log_enabled"
  /\ loc' = [loc EXCEPT ![t].en = g_log_enabled]
  /\ pc' = [pc EXCEPT ![t] =
       IF log_is_enabled(g_log_enabled) THEN "log_level" ELSE "ret"]
  /\ UNCHANGED << globals, env, sys, call, line, calls, hist >>

level_passes_strictly(level, min) == level > min

\* !(static_cast<int>(entry.level) < static_cast<int>(min_level()))
level_passes(level, min) == ~(level < min)

asks_module_filter_always(tagged, mod) == TRUE

\* the module overload asking the filter for an empty name too
asks_module_filter_when_tagged(tagged, mod) == tagged

\* the module overload asks the filter: !mod.name.empty() && ...
asks_module_filter(tagged, mod) == tagged /\ mod # << >>

log_level(t) ==
  /\ pc[t] = "log_level"
  /\ loc' = [loc EXCEPT ![t].min = g_min_level]
  /\ pc' = [pc EXCEPT ![t] =
       IF ~level_passes(call[t].level, g_min_level) THEN "ret"
       ELSE IF asks_module_filter(call[t].tagged, call[t].mod) THEN "log_module_lock"
       ELSE "log_render"]
  /\ UNCHANGED << globals, env, sys, call, line, calls, hist >>

log_module_lock(t) ==
  /\ pc[t] = "log_module_lock"
  /\ StateLock(t, "log_module_check")

\* if (... && !module_is_enabled(mod.name)) return;
log_module_check(t) ==
  /\ pc[t] = "log_module_check"
  /\ g_state_mutex' = StateUnlock(t)
  /\ LET ok == module_lookup(g_modules, call[t].mod)
     IN /\ loc' = [loc EXCEPT ![t].modok = IF ok THEN 1 ELSE 0]
        /\ pc' = [pc EXCEPT ![t] = IF ok THEN "log_render" ELSE "ret"]
  /\ UNCHANGED << g_log_enabled, g_prefix_buf, g_prefix_len, g_min_level,
                  g_min_level_set_explicitly, g_modules, g_modules_set_explicitly,
                  g_output_mutex, g_thread_safe, g_sink,
                  g_timestamps_enabled, g_source_location_enabled, g_init_once,
                  env, sys, call, line, calls, hist >>

\* what std::vformat does with the caller's template and arguments: it
\* returns the message s_msg ("ok"), returns "" ("empty"), or throws
RenderOutcomes == {"ok", "empty", "throw"}

empty_message_is_written(render) ==
  CASE render = "ok"    -> "wl_snapshot_lock"
    [] render = "empty" -> "wl_snapshot_lock"
    [] OTHER            -> "log_fallback"

format_error_propagates(render) ==
  CASE render = "ok"    -> "wl_snapshot_lock"
    [] render = "empty" -> "ret"
    [] OTHER            -> "ret"

\* try { msg = vformat(..); if (msg.empty()) return; write_log_line(..); }
\* catch (...) { write_raw(fallback, ..); }
after_render(render) ==
  CASE render = "ok"    -> "wl_snapshot_lock"
    [] render = "empty" -> "ret"
    [] OTHER            -> "log_fallback"

log_render(t) ==
  /\ pc[t] = "log_render"
  /\ \E render \in RenderOutcomes :
       /\ loc' = [loc EXCEPT ![t].render = render]
       /\ pc' = [pc EXCEPT ![t] = after_render(render)]
  /\ UNCHANGED << globals, env, sys, call, line, calls, hist >>

\* ------------------------------------------------------------------------
\*  write_raw
\* ------------------------------------------------------------------------

\* thread u has sent the first bytes of a line and not yet its message
MidLine(u) ==
  /\ pc[u] \in {"wl_emit_head", "wl_location", "wl_emit_tail"}
  /\ line[u] # << >>

write_outcomes_retry(t, sink, data) ==
  IF sink = 0 /\ sys.stderr = "flaky"
       /\ Cardinality({f \in hist.failed : f[1] = t}) < MaxWriteErrors
    THEN {[data |-> data, err |-> FALSE], [data |-> data, err |-> TRUE]}
    ELSE {[data |-> data, err |-> FALSE]}

\* what reaches the sink from one write_raw: a custom sink is handed the
\* whole buffer; the write(2) loop on stderr goes on after a short write and
\* after EINTR, and stops at the first other failure, the bytes written so
\* far being a proper prefix of the buffer
write_outcomes(t, sink, data) ==
  IF sink = 0 /\ sys.stderr = "flaky"
       /\ Cardinality({f \in hist.failed : f[1] = t}) < MaxWriteErrors
    THEN {[data |-> data, err |-> FALSE]}
         \cup {[data |-> SubSeq(data, 1, k), err |-> TRUE] : k \in 0..(Len(data) - 1)}
    ELSE {[data |-> data, err |-> FALSE]}

\* write_raw(data, size) by thread t: nothing when size is 0, otherwise the
\* current sink is loaded and invoked once
write_raw(t, data, kind) ==
  IF data = << >>
    THEN UNCHANGED << line, hist >>
    ELSE \E w \in write_outcomes(t, g_sink, data) :
         /\ line' = [line EXCEPT ![t] = Append(@, [sink |-> g_sink, data |-> w.data])]
         /\ hist' = [hist EXCEPT
              !.overlap =
                 @ \cup {<< t, u, kind >> : u \in {v \in Threads : v # t /\ MidLine(v)}},
              !.failed = IF w.err THEN @ \cup {<< t, Len(line[t]) + 1 >>} ELSE @]

\* catch (...): write_raw(fallback, sizeof(fallback) - 1)
log_fallback(t) ==
  /\ pc[t] = "log_fallback"
  /\ write_raw(t, s_fallback, "fallback")
  /\ pc' = [pc EXCEPT ![t] = "ret"]
  /\ UNCHANGED << globals, env, sys, call, loc, calls >>

\* ------------------------------------------------------------------------
\*  write_log_line
\* ------------------------------------------------------------------------

\* PrefixSnapshot prefix = read_prefix_snapshot();
wl_snapshot_lock(t) ==
  /\ pc[t] = "wl_snapshot_lock"
  /\ StateLock(t, "wl_snapshot_copy")

wl_snapshot_copy(t) ==
  /\ pc[t] = "wl_snapshot_copy"
  /\ g_state_mutex' = StateUnlock(t)
  /\ LET len == IF g_prefix_len > PREFIX_BUF_SIZE THEN PREFIX_BUF_SIZE
                ELSE g_prefix_len
     IN loc' = [loc EXCEPT ![t].snap = SubSeq(g_prefix_buf, 1, len)]
  /\ pc' = [pc EXCEPT ![t] = "wl_guard"]
  /\ UNCHANGED << g_log_enabled, g_prefix_buf, g_prefix_len, g_min_level,
                  g_min_level_set_explicitly, g_modules, g_modules_set_explicitly,
                  g_output_mutex, g_thread_safe, g_sink,
                  g_timestamps_enabled, g_source_location_enabled, g_init_once,
                  env, sys, call, line, calls, hist >>

guard_never_locks(thread_safe) == FALSE

\* OutputLockGuard(): locked(__atomic_load_n(&g_thread_safe) != 0)
guard_locks(thread_safe) == thread_safe # 0

wl_guard(t) ==
  /\ pc[t] = "wl_guard"
  /\ loc' = [loc EXCEPT ![t].locked = IF guard_locks(g_thread_safe) THEN 1 ELSE 0]
  /\ pc' = [pc EXCEPT ![t] =
       IF guard_locks(g_thread_safe) THEN "wl_output_lock" ELSE "wl_timestamp"]
  /\ UNCHANGED << globals, env, sys, call, line, calls, hist >>

\* if (locked) pthread_mutex_lock(&g_output_mutex);
wl_output_lock(t) ==
  /\ pc[t] = "wl_output_lock"
  /\ g_output_mutex = 0
  /\ g_output_mutex' = t
  /\ pc' = [pc EXCEPT ![t] = "wl_timestamp"]
  /\ UNCHANGED << g_log_enabled, g_prefix_buf, g_prefix_len, g_min_level,
                  g_min_level_set_explicitly, g_modules, g_modules_set_explicitly,
                  g_state_mutex, g_thread_safe, g_sink,
                  g_timestamps_enabled, g_source_location_enabled, g_init_once,
                  env, sys, call, loc, line, calls, hist >>

\* the head of the line as write_prefix() writes it: a space after "]"
head_fields_as_write_prefix(timestamps, snap, level) ==
  (IF timestamps # 0 THEN << write_timestamp_to(sys.tm) >> ELSE << >>)
  \o << << "|" >>, write_dec_bytes(sys.pid), << "|" >>, << " " >>,
        snap, << " " >>,
        << "[" >>, level_label(level), << "]" >>, << " " >> >>

\* the write_raw calls from the timestamp to "]"
head_fields(timestamps, snap, level) ==
  (IF timestamps # 0 THEN << write_timestamp_to(sys.tm) >> ELSE << >>)
  \o << << "|" >>, write_dec_bytes(sys.pid), << "|" >>, << " " >>,
        snap, << " " >>,
        << "[" >>, level_label(level), << "]" >> >>

tail_fields_single_write(source_location, mod, message) ==
  << (IF source_location # 0
        THEN << " " >> \o basename_of(sys.file) \o << ":" >>
             \o write_dec_bytes(sys.srcline)
        ELSE << >>)
     \o (IF mod # << >> THEN << " ", "(" >> \o mod \o << ")" >> ELSE << >>)
     \o << " " >> \o message >>

\* the write_raw calls from the source location to the message
tail_fields(source_location, mod, message) ==
  (IF source_location # 0
     THEN << << " " >>, basename_of(sys.file), << ":" >>,
             write_dec_bytes(sys.srcline) >>
     ELSE << >>)
  \o (IF mod # << >>
        THEN << << " " >>, << "(" >>, mod, << ")" >> >>
        ELSE << >>)
  \o << << " " >>, message >>

\* if (__atomic_load_n(&g_timestamps_enabled)) ...
wl_timestamp(t) ==
  /\ pc[t] = "wl_timestamp"
  /\ loc' = [loc EXCEPT ![t].pend =
       head_fields(g_timestamps_enabled, loc[t].snap, call[t].level)]
  /\ pc' = [pc EXCEPT ![t] = "wl_emit_head"]
  /\ UNCHANGED << globals, env, sys, call, line, calls, hist >>

\* the next write_raw of the straight-line code
Emit(t, next) ==
  /\ loc[t].pend # << >>
  /\ write_raw(t, Head(loc[t].pend), "line")
  /\ loc' = [loc EXCEPT ![t].pend = Tail(@)]
  /\ pc' = [pc EXCEPT ![t] = IF Tail(loc[t].pend) = << >> THEN next ELSE pc[t]]
  /\ UNCHANGED << globals, env, sys, call, calls >>

wl_emit_head(t) ==
  /\ pc[t] = "wl_emit_head"
  /\ Emit(t, "wl_location")

\* if (__atomic_load_n(&g_source_location_enabled)) ...
wl_location(t) ==
  /\ pc[t] = "wl_location"
  /\ loc' = [loc EXCEPT ![t].pend =
       tail_fields(g_source_location_enabled, call[t].mod,
                   IF loc[t].render = "ok" THEN s_msg ELSE << >>)]
  /\ pc' = [pc EXCEPT ![t] = "wl_emit_tail"]
  /\ UNCHANGED << globals, env, sys, call, line, calls, hist >>

wl_emit_tail(t) ==
  /\ pc[t] = "wl_emit_tail"
  /\ Emit(t, "wl_output_unlock")

guard_never_unlocks(locked) == FALSE

\* a destructor that unlocks whatever the constructor read
guard_always_unlocks(locked) == TRUE

\* ~OutputLockGuard(): if (locked) ...
guard_unlocks(locked) == locked = 1

\* ~OutputLockGuard(): if (locked) pthread_mutex_unlock(&g_output_mutex);
wl_output_unlock(t) ==
  /\ pc[t] = "wl_output_unlock"
  /\ g_output_mutex' = IF guard_unlocks(loc[t].locked) THEN 0 ELSE g_output_mutex
  /\ pc' = [pc EXCEPT ![t] = "ret"]
  /\ UNCHANGED << g_log_enabled, g_prefix_buf, g_prefix_len, g_min_level,
                  g_min_level_set_explicitly, g_modules, g_modules_set_explicitly,
                  g_state_mutex, g_thread_safe, g_sink,
                  g_timestamps_enabled, g_source_location_enabled, g_init_once,
                  env, sys, call, loc, line, calls, hist >>

\* ------------------------------------------------------------------------
\*  Step groups
\* ------------------------------------------------------------------------

InitSteps(t) ==
  \/ init_once_run(t)
  \/ init_once_pass(t)
  \/ ie_level_check(t)
  \/ ie_level_apply(t)
  \/ ie_modules_check(t)
  \/ ie_modules_lock(t)
  \/ ie_modules_seed(t)
  \/ ie_return(t)

ModuleSteps(t) ==
  \/ em_lock(t)
  \/ em_add(t)
  \/ dm_lock(t)
  \/ dm_remove(t)
  \/ ea_lock(t)
  \/ ea_clear(t)

LogSteps(t) ==
  \/ log_enabled(t)
  \/ log_level(t)
  \/ log_module_lock(t)
  \/ log_module_check(t)
  \/ log_render(t)
  \/ log_fallback(t)
  \/ wl_snapshot_lock(t)
  \/ wl_snapshot_copy(t)
  \/ wl_guard(t)
  \/ wl_output_lock(t)
  \/ wl_timestamp(t)
  \/ wl_emit_head(t)
  \/ wl_location(t)
  \/ wl_emit_tail(t)
  \/ wl_output_unlock(t)

\* ------------------------------------------------------------------------
\*  Spec: one thread calls the filtering API and log() in any order
\* ------------------------------------------------------------------------

FilterNames == {s_alloc, s_trace, s_network}

FilterTags == {s_empty, s_alloc, s_trace, s_network}

FilterLevelEnv == {Unset, SetTo(s_WARN)}

\* unset; "alloc,,trace"; one token more than the table holds
FilterDebugEnv ==
  {Unset, SetTo(s_env_alloc_trace), SetTo(EnvList(MAX_MODULES + 1))}

Init ==
  /\ InitGlobals
  /\ InitThreads
  /\ env \in [CT_LOG_LEVEL : FilterLevelEnv, CT_DEBUG : FilterDebugEnv]
  /\ sys = DefaultSys
  /\ calls = [t \in Threads |-> IF t = 1 THEN -1 ELSE 0]

Next ==
  \/ enable_logging(1)
  \/ disable_logging(1)
  \/ \E level \in Levels : set_min_level(1, level)
  \/ sml_store(1)
  \/ \E name \in FilterNames : enable_module(1, name)
  \/ \E name \in FilterNames : disable_module(1, name)
  \/ enable_all_modules(1)
  \/ \E level \in Levels, tagged \in BOOLEAN, mod \in FilterTags :
       log(1, level, tagged, mod)
  \/ InitSteps(1)
  \/ ModuleSteps(1)
  \/ LogSteps(1)
  \/ Return(1)

Spec == Init /\ [][Next]_vars

\* ------------------------------------------------------------------------
\*  SpecInit: threads race through init_once with logging disabled
\* ------------------------------------------------------------------------

InitRaceThreads == {1, 2, 3}

InitRaceNames == {s_alloc, s_network}

InitInitRace ==
  /\ InitGlobals
  /\ InitThreads
  /\ env \in [CT_LOG_LEVEL : {SetTo(s_Error)},
              CT_DEBUG : {Unset, SetTo(s_env_alloc_trace)}]
  /\ sys = DefaultSys
  /\ calls = [t \in Threads |-> MaxCalls]

\* thread 1 logs, thread 2 sets the level, thread 3 edits the module table
NextInitRace ==
  \/ log(1, Info, FALSE, s_empty)
  \/ log_enabled(1)
  \/ \E level \in {Info, Warn} : set_min_level(2, level)
  \/ sml_store(2)
  \/ \E name \in InitRaceNames : enable_module(3, name)
  \/ disable_module(3, s_alloc)
  \/ enable_all_modules(3)
  \/ ModuleSteps(3)
  \/ \E t \in InitRaceThreads : InitSteps(t)
  \/ \E t \in InitRaceThreads : Return(t)

SpecInit == InitInitRace /\ [][NextInitRace]_vars

\* ------------------------------------------------------------------------
\*  SpecLines: two threads log while a third toggles thread safety
\* ------------------------------------------------------------------------

LineLoggers == {1, 2}

\* the state main() of the stress test leaves before it starts its threads:
\* set_sink(noop_sink); enable_logging(); set_min_level(Level::Info);
LinesState ==
  /\ g_log_enabled = 1
  /\ g_prefix_buf = s_default_prefix \o << NUL >>
  /\ g_prefix_len = 6
  /\ g_min_level = Info
  /\ g_min_level_set_explicitly = 1
  /\ g_modules = EmptyTable
  /\ g_modules_set_explicitly = 0
  /\ g_state_mutex = 0
  /\ g_output_mutex = 0
  /\ g_thread_safe = 1
  /\ g_sink = 1
  /\ g_timestamps_enabled = 0
  /\ g_source_location_enabled = 0
  /\ g_init_once = "DONE"
  /\ pc = [t \in Threads |-> "idle"]
  /\ call = [t \in Threads |-> NoCall]
  /\ loc = [t \in Threads |-> NoLoc]
  /\ line = [t \in Threads |-> << >>]
  /\ hist = [NoHist EXCEPT !.init_runs = 1, !.explicit_level = Info,
                           !.ever_enabled = TRUE]
  /\ env = [CT_LOG_LEVEL |-> Unset, CT_DEBUG |-> Unset]
  /\ sys = DefaultSys

InitLines == LinesState /\ calls = [t \in Threads |-> MaxCalls]

\* the steps of an untagged log call once the environment has been read
LineSteps(t) ==
  \/ init_once_pass(t)
  \/ log_enabled(t)
  \/ log_level(t)
  \/ log_render(t)
  \/ log_fallback(t)
  \/ wl_snapshot_lock(t)
  \/ wl_snapshot_copy(t)
  \/ wl_guard(t)
  \/ wl_output_lock(t)
  \/ wl_timestamp(t)
  \/ wl_emit_head(t)
  \/ wl_location(t)
  \/ wl_emit_tail(t)
  \/ wl_output_unlock(t)
  \/ Return(t)

NextLines ==
  \/ \E t \in LineLoggers : log(t, Info, FALSE, s_empty)
  \/ \E t \in LineLoggers : LineSteps(t)
  \/ \E enabled \in BOOLEAN : set_thread_safe(3, enabled)

SpecLines == InitLines /\ [][NextLines]_vars

\* ------------------------------------------------------------------------
\*  SpecStress: the stress test, two loggers and a configuration thread,
\*  every thread scheduled fairly
\* ------------------------------------------------------------------------

StressConfig == 3

\* calls each thread of the stress test makes
StressCalls == 1

StressPrefixes == {s_alpha, s_beta}

\* the steps a thread takes inside a call of the stress test
StressSteps(t) ==
  \/ init_once_pass(t)
  \/ log_enabled(t)
  \/ log_level(t)
  \/ log_module_lock(t)
  \/ log_module_check(t)
  \/ log_render(t)
  \/ log_fallback(t)
  \/ wl_snapshot_lock(t)
  \/ wl_snapshot_copy(t)
  \/ wl_guard(t)
  \/ wl_output_lock(t)
  \/ wl_timestamp(t)
  \/ wl_emit_head(t)
  \/ wl_location(t)
  \/ wl_emit_tail(t)
  \/ wl_output_unlock(t)
  \/ sp_lock(t)
  \/ sp_copy(t)
  \/ sp_len(t)
  \/ em_lock(t)
  \/ em_add(t)
  \/ dm_lock(t)
  \/ dm_remove(t)
  \/ mie_lock(t)
  \/ mie_check(t)
  \/ Return(t)

NextStress ==
  \/ \E t \in LineLoggers : log(t, Info, FALSE, s_empty)
  \/ \E t \in LineLoggers : log(t, Info, TRUE, s_stress)
  \/ \E enabled \in BOOLEAN : set_thread_safe(StressConfig, enabled)
  \/ \E prefix \in StressPrefixes : set_prefix(StressConfig, prefix)
  \/ enable_module(StressConfig, s_stress)
  \/ disable_module(StressConfig, s_stress)
  \/ module_is_enabled(StressConfig, s_stress)
  \/ \E t \in Threads : StressSteps(t)

\* a thread inside a call is scheduled again and again; a thread that waits
\* for a mutex gets it when it is released often enough
StressFair == \A t \in Threads : SF_vars(StressSteps(t))

InitStress == LinesState /\ calls = [t \in Threads |-> StressCalls]

SpecStress == InitStress /\ [][NextStress]_vars /\ StressFair

\* ------------------------------------------------------------------------
\*  SpecNoop: one thread logs and makes only module calls that find nothing
\*  to remove
\* ------------------------------------------------------------------------

NoopDebugEnv == {Unset, SetTo(s_env_alloc_trace)}

InitNoop ==
  /\ InitGlobals
  /\ InitThreads
  /\ env \in [CT_LOG_LEVEL : FilterLevelEnv, CT_DEBUG : NoopDebugEnv]
  /\ sys = DefaultSys
  /\ calls = [t \in Threads |-> IF t = 1 THEN -1 ELSE 0]

NextNoop ==
  \/ enable_logging(1)
  \/ \E name \in FilterNames :
       ~Registered(g_modules, name) /\ disable_module(1, name)
  \/ g_modules.count = 0 /\ enable_all_modules(1)
  \/ \E level \in Levels, tagged \in BOOLEAN, mod \in FilterTags :
       log(1, level, tagged, mod)
  \/ InitSteps(1)
  \/ dm_lock(1)
  \/ dm_remove(1)
  \/ ea_lock(1)
  \/ ea_clear(1)
  \/ LogSteps(1)
  \/ Return(1)

SpecNoop == InitNoop /\ [][NextNoop]_vars

\* ------------------------------------------------------------------------
\*  SpecSink: one thread logs while another switches the sink
\* ------------------------------------------------------------------------

SinkLogger == 1

SinkSwitcher == 2

NextSink ==
  \/ \E tagged \in BOOLEAN : log(SinkLogger, Info, tagged, s_stress)
  \/ log_module_lock(SinkLogger)
  \/ log_module_check(SinkLogger)
  \/ LineSteps(SinkLogger)
  \/ \E fn \in {0} \cup Sinks : set_sink(SinkSwitcher, fn)

SpecSink == InitLines /\ [][NextSink]_vars

\* ------------------------------------------------------------------------
\*  SpecPrefix: one thread sets prefixes around the buffer size and logs
\* ------------------------------------------------------------------------

\* "1234567890123..." of n bytes
PrefixOf(n) == [i \in 1..n |-> Digits[(i % 10) + 1]]

\* empty, short, one below the limit, the limit, the buffer size and beyond
PrefixLengths ==
  {0, 9, PREFIX_BUF_SIZE - 2, PREFIX_BUF_SIZE - 1, PREFIX_BUF_SIZE,
   PREFIX_BUF_SIZE + 1, 2 * PREFIX_BUF_SIZE}

InitPrefix == LinesState /\ calls = [t \in Threads |-> IF t = 1 THEN -1 ELSE 0]

NextPrefix ==
  \/ \E n \in PrefixLengths : set_prefix(1, PrefixOf(n))
  \/ sp_lock(1)
  \/ sp_copy(1)
  \/ sp_len(1)
  \/ \E level \in Levels : log(1, level, FALSE, s_empty)
  \/ LineSteps(1)

SpecPrefix == InitPrefix /\ [][NextPrefix]_vars

\* ------------------------------------------------------------------------
\*  SpecStderr: one thread logs to a stderr whose write(2) may fail
\* ------------------------------------------------------------------------

InitStderr ==
  /\ InitGlobals
  /\ InitThreads
  /\ env \in [CT_LOG_LEVEL : FilterLevelEnv, CT_DEBUG : NoopDebugEnv]
  /\ sys = [DefaultSys EXCEPT !.stderr = "flaky"]
  /\ calls = [t \in Threads |-> IF t = 1 THEN -1 ELSE 0]

NextStderr ==
  \/ enable_logging(1)
  \/ \E level \in Levels, tagged \in BOOLEAN : log(1, level, tagged, s_alloc)
  \/ InitSteps(1)
  \/ LogSteps(1)
  \/ Return(1)

SpecStderr == InitStderr /\ [][NextStderr]_vars

\* ------------------------------------------------------------------------
\*  Properties of the filtering API (Spec)
\* ------------------------------------------------------------------------

\* thread t has returned from a log call
LogReturned(t) == pc[t] = "ret" /\ call[t].op = "log"

\* the call of thread t sent a whole line, ending with the message
LineEmitted(t) ==
  /\ line[t] # << >>
  /\ line[t][Len(line[t])].data = s_msg
  /\ line[t][1].data = << "|" >>

\* the names the table holds
TableNames == {NameAt(g_modules, i) : i \in 1..g_modules.count}

\* C1: with logging enabled, an untagged log call at level L whose message
\* renders non-empty reaches the sink if and only if L >= the minimum level;
\* a call below the minimum makes no sink invocation
C1_LevelFiltering ==
  \A t \in Threads :
    (LogReturned(t) /\ ~call[t].tagged /\ g_log_enabled = 1) =>
      /\ call[t].level < g_min_level => line[t] = << >>
      /\ call[t].level >= g_min_level => loc[t].render # "none"
      /\ (call[t].level >= g_min_level /\ loc[t].render = "ok") => LineEmitted(t)
      /\ line[t] # << >> => call[t].level >= g_min_level

\* an Error call passed a minimum of Error set through the environment-free API
C1_Witness ==
  /\ LogReturned(1) /\ ~call[1].tagged /\ g_log_enabled = 1
  /\ g_min_level = Error /\ call[1].level = Error
  /\ LineEmitted(1)

\* C2: logging starts disabled, and a log call that reads "disabled" makes no
\* sink invocation, whatever its level, its tag and the module table
C2_DisabledWins ==
  /\ ~hist.ever_enabled => g_log_enabled = 0
  /\ \A t \in Threads :
       (call[t].op = "log" /\ loc[t].en = 0) => (line[t] = << >> /\ pc[t] = "ret")
  /\ \A t \in Threads :
       (LogReturned(t) /\ g_log_enabled = 0) => line[t] = << >>

\* a call tagged with a registered module returned after disable_logging()
C2_Witness ==
  /\ LogReturned(1) /\ loc[1].en = 0 /\ hist.ever_enabled
  /\ call[1].tagged /\ call[1].mod = s_alloc /\ call[1].level = Error
  /\ TableNames = {s_alloc}
  /\ line[1] = << >>

\* C5: with logging enabled and the level passing, a call tagged with a
\* non-empty name m passes the module filter if and only if the table is empty
\* or holds m; a call that passes and renders a message emits its line, a
\* filtered call makes no sink invocation
C5_ModuleFilterRule ==
  \A t \in Threads :
    (/\ LogReturned(t) /\ call[t].tagged /\ call[t].mod # << >>
     /\ g_log_enabled = 1 /\ call[t].level >= g_min_level) =>
      /\ loc[t].render # "none" <=>
           (g_modules.count = 0 \/ call[t].mod \in TableNames)
      /\ loc[t].render = "ok" => LineEmitted(t)
      /\ loc[t].render = "none" => line[t] = << >>

\* with exactly alloc and trace registered, a call tagged network was filtered
C5_Witness ==
  /\ LogReturned(1) /\ call[1].tagged /\ call[1].mod = s_network
  /\ g_log_enabled = 1 /\ call[1].level >= g_min_level
  /\ g_modules.count = 2 /\ TableNames = {s_alloc, s_trace}
  /\ g_modules_set_explicitly = 1
  /\ line[1] = << >>

\* C6 as stated: after enable_module(m) with a valid name has returned, m is
\* enabled
C6_AsStated ==
  \A t \in Threads :
    (pc[t] = "ret" /\ call[t].op = "enable_module" /\ module_name_ok(call[t].arg))
      => (module_lookup(g_modules, call[t].arg) /\ call[t].arg \in TableNames)

\* C6 amended: after enable_module(m) with a valid name has returned, m is
\* registered and enabled unless the table is full (32 names) without m,
\* whether the environment was read before the call or by it
C6_EnableModuleTakesEffect ==
  \A t \in Threads :
    (pc[t] = "ret" /\ call[t].op = "enable_module" /\ module_name_ok(call[t].arg))
      => \/ (module_lookup(g_modules, call[t].arg) /\ call[t].arg \in TableNames)
         \/ (g_modules.count = MAX_MODULES /\ call[t].arg \notin TableNames)

\* enable_module(network) returned after an earlier log call had seeded
\* alloc and trace from CT_DEBUG
C6_Witness ==
  /\ pc[1] = "ret" /\ call[1].op = "enable_module" /\ call[1].arg = s_network
  /\ hist.seeded = 2
  /\ g_modules.count = 3 /\ s_network \in TableNames
  /\ module_lookup(g_modules, s_network)

C4_ExplicitLevelWins ==
  /\ hist.explicit_level # -1 => g_min_level = hist.explicit_level
  /\ \A t \in Threads :
       (pc[t] = "ret" /\ call[t].op = "set_min_level") =>
         (g_min_level = hist.explicit_level /\ g_min_level_set_explicitly = 1)

\* set_min_level(Info) returned with min_level() = Info although another
\* thread's init_from_env stored CT_LOG_LEVEL=Error after the marker was set
C4_Witness ==
  /\ pc[2] = "ret" /\ call[2].op = "set_min_level" /\ call[2].level = Info
  /\ hist.env_level_marked
  /\ env.CT_LOG_LEVEL = SetTo(s_Error)
  /\ g_min_level = Info

\* C7 as stated: no CT_DEBUG token is inserted while the modules-explicit
\* marker is true
C7_AsStated == ~hist.seeded_marked

\* C7 amended: once an explicit module call has got past init_once, no
\* CT_DEBUG token is inserted any more; while tokens are being inserted with
\* the marker already true, every explicit module call is still waiting in
\* init_once
C7_NoSeedingAfterExplicitCall ==
  /\ ~hist.seeded_returned
  /\ \A t \in Threads :
       (pc[t] \in {"ie_modules_lock", "ie_modules_seed"}
        /\ g_modules_set_explicitly = 1) =>
          /\ ~hist.explicit_passed
          /\ \A u \in Threads :
               (call[u].op \in ExplicitModuleOps /\ loc[u].after # "none")
                  => pc[u] = "init_once"

\* enable_module(network) returned after the seeding of alloc and trace had
\* run with the marker already set
C7_Witness ==
  /\ pc[3] = "ret" /\ call[3].op = "enable_module" /\ call[3].arg = s_network
  /\ hist.seeded_marked /\ hist.seeded = 2
  /\ hist.explicit_passed
  /\ TableNames = {s_alloc, s_trace, s_network}

OncePcs ==
  {"init_once", "ie_level_check", "ie_level_apply", "ie_modules_check",
   "ie_modules_lock", "ie_modules_seed", "ie_return"}

\* C8: the body of init_from_env is entered at most once, and a call is past
\* init_once only when that run has completed
C8_InitOnce ==
  /\ hist.init_runs <= 1
  /\ ~hist.past_once_early
  /\ \A t \in Threads :
       (loc[t].after # "none" /\ pc[t] \notin OncePcs) => g_init_once = "DONE"
  /\ Cardinality({t \in Threads : pc[t] \in OncePcs \ {"init_once"}}) <= 1

\* three calls of three threads are past init_once after a single run
C8_Witness ==
  /\ hist.init_runs = 1
  /\ \A t \in InitRaceThreads : pc[t] = "ret" /\ loc[t].after # "none"
  /\ call[1].op = "log" /\ call[2].op = "set_min_level"
  /\ call[3].op = "enable_module"

\* ------------------------------------------------------------------------
\*  Properties of line emission (SpecLines)
\* ------------------------------------------------------------------------

\* the bytes of the sink invocations of thread t's call, in order
RECURSIVE Bytes(_)
Bytes(writes) ==
  IF writes = << >> THEN << >> ELSE Head(writes).data \o Bytes(Tail(writes))

\* |4242| ==ct== [INFO] hi
PlainInfoLine ==
  << "|", "4", "2", "4", "2", "|", " " >> \o s_default_prefix
  \o << " ", "[", "I", "N", "F", "O", "]", " " >> \o s_msg

\* C3: while thread safety has never been switched off, no sink write of a
\* line falls between the first and the last sink write of another thread's
\* line, and every call that emits returns with its complete line written
C3_NoInterleavedLines ==
  ~hist.ts_off =>
    /\ \A o \in hist.overlap : o[3] # "line"
    /\ \A t, u \in Threads : (t # u /\ MidLine(t)) => ~MidLine(u)
    /\ \A t \in Threads :
         (LogReturned(t) /\ loc[t].render = "ok") =>
           (loc[t].locked = 1 /\ Bytes(line[t]) = PlainInfoLine)

\* thread 1 waits for the output lock while thread 2 is in the middle of its
\* line
C3_Witness ==
  /\ ~hist.ts_off
  /\ pc[1] = "wl_output_lock" /\ loc[1].locked = 1
  /\ MidLine(2) /\ g_output_mutex = 2 /\ Len(line[2]) = 5

\* ------------------------------------------------------------------------
\*  Properties of the stress test (SpecStress)
\* ------------------------------------------------------------------------

InCall(t) == pc[t] # "idle"

\* some thread that is inside a call can take its next step
NoDeadlock == (\E t \in Threads : InCall(t)) => (\E t \in Threads : ENABLED StressSteps(t))

\* C11: under fair scheduling no reachable state of the stress test is a
\* deadlock, and every call a thread has started eventually returns
C11_EveryCallReturns ==
  /\ []NoDeadlock
  /\ \A t \in Threads : InCall(t) ~> (pc[t] = "ret")

\* logger 1 waits for the output lock that logger 2 holds while the
\* configuration thread holds the state lock inside set_prefix
C11_Witness ==
  /\ pc[1] = "wl_output_lock" /\ g_output_mutex = 2
  /\ pc[StressConfig] = "sp_copy" /\ g_state_mutex = StressConfig
  /\ call[1].tagged /\ ~call[2].tagged

StateLockPcs ==
  {"ie_modules_seed", "sp_copy", "sp_len", "em_add", "dm_remove", "ea_clear",
   "mie_check", "log_module_check", "wl_snapshot_copy"}

OutputLockPcs ==
  {"wl_timestamp", "wl_emit_head", "wl_location", "wl_emit_tail",
   "wl_output_unlock"}

\* C12: no thread holds the state lock and the output lock together; the
\* prefix snapshot is copied with the state lock alone, the state lock is free
\* of the thread when it asks for the output lock, and it is not asked for
\* again while the output lock is held
C12_LocksNeverNested ==
  \A t \in Threads :
    /\ ~(g_state_mutex = t /\ g_output_mutex = t)
    /\ g_state_mutex = t <=> pc[t] \in StateLockPcs
    /\ g_output_mutex = t <=> (pc[t] \in OutputLockPcs /\ loc[t].locked = 1)
    /\ pc[t] = "wl_snapshot_copy" => g_output_mutex # t
    /\ pc[t] \in {"wl_guard", "wl_output_lock"} =>
         g_state_mutex # t

\* logger 1 holds the output lock in the middle of its line while logger 2
\* holds the state lock for its prefix snapshot
C12_Witness ==
  /\ g_output_mutex = 1 /\ MidLine(1)
  /\ g_state_mutex = 2 /\ pc[2] = "wl_snapshot_copy"

\* ------------------------------------------------------------------------
\*  Properties of the module table (Spec)
\* ------------------------------------------------------------------------

TableBounded ==
  /\ g_modules.count >= 0 /\ g_modules.count <= MAX_MODULES
  /\ Len(g_modules.names) = g_modules.count
  /\ \A i, j \in 1..g_modules.count :
       i # j => ~sv_eq(NameAt(g_modules, i), NameAt(g_modules, j))

\* a step of enable_module's insertion or of the CT_DEBUG loop, taken with
\* the table full, leaves the table as it was, writes nothing and goes on to
\* the normal return
FullTableStep ==
  \A t \in Threads :
    (/\ g_modules.count = MAX_MODULES
     /\ pc[t] \in {"em_add", "ie_modules_seed"}
     /\ << pc[t], loc[t] >> # << pc'[t], loc'[t] >>) =>
       /\ g_modules' = g_modules
       /\ line' = line
       /\ pc'[t] \in {"ret", "ie_modules_seed", "ie_return"}

\* C13: the module table never holds more than 32 names nor a name twice, and
\* inserting a new name into a full table, by enable_module or by the CT_DEBUG
\* seeding, changes nothing and is not reported
C13_BoundedTable == []TableBounded /\ [][FullTableStep]_vars

\* enable_module(alloc) returned with the table still holding the first 32
\* of the 33 CT_DEBUG tokens and not alloc
C13_Witness ==
  /\ pc[1] = "ret" /\ call[1].op = "enable_module" /\ call[1].arg = s_alloc
  /\ hist.seeded = MAX_MODULES /\ g_modules.count = MAX_MODULES
  /\ EnvToken(MAX_MODULES) \in TableNames
  /\ EnvToken(MAX_MODULES + 1) \notin TableNames
  /\ s_alloc \notin TableNames

\* C14: whenever no thread is inside a state-lock critical section,
\* filter_active is 1 exactly when the module table holds a name
C14_FilterActiveNeverStale ==
  g_state_mutex = 0 =>
    /\ g_modules.filter_active \in {0, 1}
    /\ g_modules.filter_active = 1 <=> g_modules.count > 0

\* disable_module(trace) returned with the table empty and the filter off,
\* after alloc and trace had been seeded from CT_DEBUG
C14_Witness ==
  /\ pc[1] = "ret" /\ call[1].op = "disable_module" /\ call[1].arg = s_trace
  /\ hist.seeded = 2
  /\ g_state_mutex = 0
  /\ g_modules.count = 0 /\ g_modules.filter_active = 0

\* everything a later call can read, the state lock apart
Configuration ==
  << g_log_enabled, g_prefix_buf, g_prefix_len, g_min_level,
     g_min_level_set_explicitly, g_modules, g_modules_set_explicitly,
     g_output_mutex, g_thread_safe, g_sink, g_timestamps_enabled,
     g_source_location_enabled, g_init_once, env >>

\* what a returned enable_module(x) leaves: the environment read, the marker
\* set, and x registered unless the table is full
Enabled(x) ==
  /\ g_init_once = "DONE" /\ g_modules_set_explicitly = 1
  /\ Registered(g_modules, x) \/ g_modules.count = MAX_MODULES

EnableReturned(t) ==
  pc[t] = "ret" /\ call[t].op = "enable_module" /\ module_name_ok(call[t].arg)

\* a step of an enable_module(x) call made in the state a returned
\* enable_module(x) leaves changes nothing of the configuration
RepeatedEnableStep ==
  \A t \in Threads :
    (call'[t].op = "enable_module" /\ Enabled(call'[t].arg)) =>
      /\ Configuration' = Configuration
      /\ line' = line
      /\ pc'[t] = "ret" => g_state_mutex' = 0

\* C15: enable_module(x) called again right after enable_module(x) has
\* returned leaves the module table (x once, same order, same count) and the
\* rest of the configuration exactly as the first call left them
C15_EnableIdempotent ==
  /\ [](\A t \in Threads :
          EnableReturned(t) => (Enabled(call[t].arg) /\ g_state_mutex = 0))
  /\ [][RepeatedEnableStep]_vars

\* enable_module(alloc) returned for the second time, without CT_DEBUG: alloc
\* was already registered when the call was entered and is registered once
C15_Witness ==
  /\ EnableReturned(1) /\ call[1].arg = s_alloc /\ loc[1].had = 1
  /\ env.CT_DEBUG = Unset
  /\ g_modules.count = 1 /\ TableNames = {s_alloc}

\* ------------------------------------------------------------------------
\*  Properties of the module calls that remove nothing (SpecNoop)
\* ------------------------------------------------------------------------

\* the call in progress is disable_module of an unregistered name or
\* enable_all_modules with an empty table
RemovesNothing(c) ==
  \/ c.op = "disable_module" /\ ~Registered(g_modules, c.arg)
  \/ c.op = "enable_all_modules" /\ g_modules.count = 0

\* C16 as stated, on its observable part: with CT_DEBUG=alloc,,trace and no
\* module call other than ones that remove nothing, a log call tagged network
\* is suppressed, as it is when no module call is made at all
C16_AsStated ==
  (/\ LogReturned(1) /\ call[1].tagged /\ call[1].mod = s_network
   /\ env.CT_DEBUG = SetTo(s_env_alloc_trace)) => line[1] = << >>

\* a step of such a call never changes the module table, the prefix, the
\* flags or the sink and writes nothing; it may set the modules-explicit
\* marker, and it may run the one-time initialisation, which then skips
\* CT_DEBUG; with the environment read and the marker set it changes nothing
RemovesNothingStep ==
  \A t \in Threads :
    RemovesNothing(call'[t]) =>
      /\ UNCHANGED << g_log_enabled, g_prefix_buf, g_prefix_len, g_modules,
                      g_output_mutex, g_thread_safe, g_sink,
                      g_timestamps_enabled, g_source_location_enabled,
                      env, line >>
      /\ g_modules_set_explicitly' \in {g_modules_set_explicitly, 1}
      /\ (g_init_once = "DONE" /\ g_modules_set_explicitly = 1) =>
            Configuration' = Configuration
      /\ pc'[t] = "ret" => (g_state_mutex' = 0 /\ g_init_once' = "DONE")

\* C16 amended: disable_module of an unregistered name and enable_all_modules
\* with an empty table leave the table and the output configuration alone, and
\* the whole configuration once the environment has been read and the marker
\* is set; made before the environment is read they set the marker, so the
\* CT_DEBUG names are never registered afterwards
C16_RemovesNothing ==
  /\ [][RemovesNothingStep]_vars
  /\ [](hist.seeded > 0 => ~hist.seeded_marked)
  /\ []((g_modules_set_explicitly = 1 /\ g_init_once = "DONE" /\ hist.seeded = 0)
          => g_modules.count = 0)

\* a log call tagged network printed although CT_DEBUG names alloc and trace:
\* disable_module(network) was the first call and CT_DEBUG was never read
C16_Witness ==
  /\ LogReturned(1) /\ call[1].tagged /\ call[1].mod = s_network
  /\ env.CT_DEBUG = SetTo(s_env_alloc_trace)
  /\ g_modules_set_explicitly = 1 /\ hist.seeded = 0 /\ g_modules.count = 0
  /\ LineEmitted(1)

\* ------------------------------------------------------------------------
\*  Properties of the sink (SpecSink)
\* ------------------------------------------------------------------------

\* C20 as stated: all sink invocations of one line go to one sink, the one
\* installed when the first field was written
C20_OneSinkPerLine ==
  \A t \in Threads :
    \A i, j \in 1..Len(line[t]) : line[t][i].sink = line[t][j].sink

\* the step of thread t that leaves the catch block of log
FallbackStep ==
  \A t \in Threads :
    (pc[t] = "log_fallback" /\ pc'[t] # pc[t]) =>
      /\ line'[t] = << [sink |-> g_sink, data |-> s_fallback] >>
      /\ pc'[t] = "ret"
      /\ Configuration' = Configuration /\ g_state_mutex' = g_state_mutex

\* the step of thread t in which std::vformat throws
ThrowStep ==
  \A t \in Threads :
    (pc[t] = "log_render" /\ loc'[t].render = "throw") =>
      /\ pc'[t] = "log_fallback" /\ line'[t] = line[t]
      /\ Configuration' = Configuration /\ g_state_mutex' = g_state_mutex

\* C17: when std::vformat throws in a log call that passed the enabled, level
\* and module checks, the call writes exactly the fixed diagnostic, in one
\* write_raw to the sink installed at that moment, with no prefix field, takes
\* no lock, changes nothing of the configuration and returns normally
C17_RenderFailureContained ==
  /\ [][ThrowStep]_vars
  /\ [][FallbackStep]_vars
  /\ [](\A t \in Threads :
          (LogReturned(t) /\ loc[t].render = "throw") =>
            /\ Len(line[t]) = 1 /\ line[t][1].data = s_fallback
            /\ line[t][1].sink \in {0} \cup Sinks
            /\ loc[t].en = 1 /\ loc[t].min <= call[t].level
            /\ loc[t].snap = << >> /\ loc[t].locked = -1)

\* a tagged call whose rendering threw returned after writing the diagnostic
\* to custom sink 2, installed by the other thread
C17_Witness ==
  /\ LogReturned(SinkLogger) /\ loc[SinkLogger].render = "throw"
  /\ call[SinkLogger].tagged /\ call[SinkLogger].mod = s_stress
  /\ line[SinkLogger] = << [sink |-> 2, data |-> s_fallback] >>
  /\ g_sink = 2

\* ------------------------------------------------------------------------
\*  Properties of the message body and the prefix (Spec, SpecPrefix)
\* ------------------------------------------------------------------------

\* C18: a log call whose message renders empty makes no sink invocation and
\* takes neither the prefix snapshot nor the output lock, also when logging
\* is enabled and the level and module checks pass
C18_EmptyBodyEmitsNothing ==
  \A t \in Threads :
    (call[t].op = "log" /\ loc[t].render = "empty") =>
      /\ pc[t] = "ret"
      /\ line[t] = << >>
      /\ loc[t].snap = << >> /\ loc[t].locked = -1

\* an Error call tagged alloc, with alloc registered and logging enabled,
\* rendered an empty message and returned without output
C18_Witness ==
  /\ LogReturned(1) /\ loc[1].render = "empty"
  /\ g_log_enabled = 1 /\ loc[1].en = 1
  /\ call[1].level = Error /\ call[1].tagged /\ call[1].mod = s_alloc
  /\ TableNames = {s_alloc} /\ loc[1].modok = 1
  /\ line[1] = << >>

\* the first n bytes of p, all of p when it is shorter
FirstBytes(p, n) == SubSeq(p, 1, IF Len(p) < n THEN Len(p) ELSE n)

\* the bytes of the line between "|4242| " and " [LEVEL] hi\n"
PrefixField(t) ==
  LET bytes == Bytes(line[t])
      before == 2 + Len(write_dec_bytes(sys.pid)) + 1
      after == 1 + 2 + Len(level_label(call[t].level)) + 1 + Len(s_msg)
  IN SubSeq(bytes, before + 1, Len(bytes) - after)

\* C19: the prefix field of an emitted line is the argument of the latest
\* set_prefix, whole when it has at most 63 bytes and cut to its first 63
\* bytes otherwise, and the stored length never exceeds 63
C19_PrefixRoundTrip ==
  /\ g_prefix_len <= PREFIX_BUF_SIZE - 1
  /\ Len(g_prefix_buf) <= PREFIX_BUF_SIZE
  /\ \A t \in Threads :
       (LogReturned(t) /\ loc[t].render = "ok") =>
         /\ LineEmitted(t)
         /\ PrefixField(t) = FirstBytes(hist.last_prefix, 63)
         /\ Len(hist.last_prefix) <= 63 => PrefixField(t) = hist.last_prefix

\* a line was emitted after set_prefix of a 64-byte string: its prefix field
\* holds the first 63 bytes
C19_Witness ==
  /\ LogReturned(1) /\ LineEmitted(1)
  /\ hist.last_prefix = PrefixOf(PREFIX_BUF_SIZE)
  /\ g_prefix_len = 63
  /\ PrefixField(1) = PrefixOf(63)

\* ------------------------------------------------------------------------
\*  Properties of the sink invocations (Spec)
\* ------------------------------------------------------------------------

\* thread t's log call returned at one of the four checks
Skipped(t) ==
  /\ LogReturned(t)
  /\ \/ loc[t].en = 0
     \/ loc[t].min > call[t].level
     \/ loc[t].modok = 0
     \/ loc[t].render = "empty"

C22_AsStated ==
  \A f \in hist.failed : Len(line[f[1]]) = f[2]

\* the fields write_log_line passes to write_raw for thread t's call
LineFields(t) ==
  head_fields(g_timestamps_enabled, loc[t].snap, call[t].level)
  \o tail_fields(g_source_location_enabled, call[t].mod, s_msg)

\* C22 amended: a write that fails is not retried and loses the rest of its
\* own field only; every later field of the line is still passed to write_raw
\* once, and the call returns normally
C22_FailedFieldDropped ==
  \A t \in Threads :
    /\ (call[t].op = "log" /\ loc[t].render = "ok") =>
         /\ Len(line[t]) <= Len(LineFields(t))
         /\ \A i \in 1..Len(line[t]) :
              LET field == LineFields(t)[i]
                  sent == line[t][i].data
              IN /\ sent = SubSeq(field, 1, Len(sent))
                 /\ << t, i >> \in hist.failed <=> Len(sent) < Len(field)
    /\ (LogReturned(t) /\ loc[t].render = "ok") =>
         Len(line[t]) = Len(LineFields(t))
    /\ (LogReturned(t) /\ loc[t].render = "throw") =>
         /\ Len(line[t]) = 1
         /\ line[t][1].data = SubSeq(s_fallback, 1, Len(line[t][1].data))

\* the write of "|" failed with nothing written, yet the call went on and
\* wrote the remaining ten fields, the message included
C22_Witness ==
  /\ LogReturned(1) /\ loc[1].render = "ok" /\ ~call[1].tagged
  /\ << 1, 1 >> \in hist.failed
  /\ line[1][1].data = << >>
  /\ Len(line[1]) = 11 /\ line[1][11].data = s_msg

\* ------------------------------------------------------------------------
\*  SpecLayout: one thread switches the optional fields and logs
\* ------------------------------------------------------------------------

NextLayout ==
  \/ \E b \in BOOLEAN : set_timestamps(1, b)
  \/ \E b \in BOOLEAN : set_source_location(1, b)
  \/ \E p \in {s_empty, s_alpha} : set_prefix(1, p)
  \/ sp_lock(1)
  \/ sp_copy(1)
  \/ sp_len(1)
  \/ \E level \in Levels, tagged \in BOOLEAN, mod \in {s_empty, s_stress} :
       log(1, level, tagged, mod)
  \/ log_module_lock(1)
  \/ log_module_check(1)
  \/ LineSteps(1)

SpecLayout == InitPrefix /\ [][NextLayout]_vars

\* [2025-01-15T10:45:23.456]
StampText ==
  << "[","2","0","2","5","-","0","1","-","1","5","T",
     "1","0",":","4","5",":","2","3",".","4","5","6","]" >>

\* |4242|
PidText == << "|","4","2","4","2","|" >>

\* main.cpp:42
PlaceText == << "m","a","i","n",".","c","p","p",":","4","2" >>

LevelText(level) ==
  IF level = Error THEN << "[","E","R","R","O","R","]" >>
  ELSE IF level = Warn THEN << "[","W","A","R","N","]" >>
  ELSE << "[","I","N","F","O","]" >>

\* the line the documented layout gives for the call of thread t
LayoutOf(t) ==
  (IF g_timestamps_enabled = 1 THEN StampText \o << " " >> ELSE << >>)
  \o PidText \o << " " >>
  \o hist.last_prefix \o << " " >>
  \o LevelText(call[t].level)
  \o (IF g_source_location_enabled = 1 THEN << " " >> \o PlaceText ELSE << >>)
  \o (IF call[t].mod # << >>
        THEN << " ", "(" >> \o call[t].mod \o << ")" >> ELSE << >>)
  \o << " " >> \o s_msg

\* C23: the bytes of an emitted line are the timestamp and a space iff
\* timestamps are on, |pid| and a space, the prefix and a space, [LEVEL], a
\* space and file:line iff source location is on, a space and (module) iff
\* the tag is non-empty, a space, and the message with nothing after it
C23_LineLayout ==
  \A t \in Threads :
    (LogReturned(t) /\ loc[t].render = "ok") => Bytes(line[t]) = LayoutOf(t)

\* [2025-01-15T10:45:23.456] |4242| ==alpha== [ERROR] main.cpp:42 (stress) hi
C23_Witness ==
  /\ LogReturned(1) /\ loc[1].render = "ok"
  /\ Bytes(line[1]) =
       StampText \o << " " >> \o PidText \o << " " >> \o s_alpha
       \o << " ","[","E","R","R","O","R","]"," " >> \o PlaceText
       \o << " ","(" >> \o s_stress \o << ")"," " >> \o s_msg

\* ------------------------------------------------------------------------
\*  SpecEnv: one thread, CT_LOG_LEVEL and CT_DEBUG set in many ways
\* ------------------------------------------------------------------------

\* a module name of n bytes
NameOf(n) == [i \in 1..n |-> "n"]

InitEnv ==
  /\ InitGlobals
  /\ InitThreads
  /\ env \in [CT_LOG_LEVEL : {Unset, SetTo(s_empty), SetTo(s_warn), SetTo(s_WARN),
                              SetTo(s_error), SetTo(s_Error), SetTo(s_info),
                              SetTo(s_debug), SetTo(s_warning)},
              CT_DEBUG : NoopDebugEnv]
  /\ sys = DefaultSys
  /\ calls = [t \in Threads |-> IF t = 1 THEN -1 ELSE 0]

NextEnv ==
  \/ enable_logging(1)
  \/ \E level \in Levels : set_min_level(1, level)
  \/ sml_store(1)
  \/ \E n \in {0, 1, MODULE_NAME_LEN - 1, MODULE_NAME_LEN, MODULE_NAME_LEN + 1} :
       enable_module(1, NameOf(n))
  \/ em_lock(1)
  \/ em_add(1)
  \/ \E level \in Levels, tagged \in BOOLEAN,
        mod \in {s_alloc, NameOf(MODULE_NAME_LEN - 1)} :
       log(1, level, tagged, mod)
  \/ InitSteps(1)
  \/ LogSteps(1)
  \/ Return(1)

SpecEnv == InitEnv /\ [][NextEnv]_vars

\* the minimum level the documentation gives for the environment
EnvMinimum ==
  IF ~env.CT_LOG_LEVEL.set THEN Info
  ELSE IF env.CT_LOG_LEVEL.val \in {s_warn, s_WARN} THEN Warn
  ELSE IF env.CT_LOG_LEVEL.val \in {s_error, s_Error} THEN Error
  ELSE Info

\* the minimum level a log call has to use
DueMinimum ==
  IF g_min_level_set_explicitly = 1 THEN hist.explicit_level ELSE EnvMinimum

RejectedName(name) == Len(name) = 0 \/ Len(name) >= 32

\* an enable_module call with a rejected name returns at once and leaves
\* the configuration as it was
RejectedEnableStep ==
  \A t \in Threads :
    (pc[t] = "idle" /\ call'[t].op = "enable_module" /\ RejectedName(call'[t].arg))
      => /\ pc'[t] = "ret"
         /\ line' = line
         /\ UNCHANGED << g_modules, g_modules_set_explicitly, g_init_once,
                         g_min_level, g_min_level_set_explicitly, g_state_mutex >>

\* C25: enable_module with an empty name or a name of 32 bytes or more
\* changes neither the table, filter_active, the modules marker nor the
\* one-time-init guard, writes nothing and returns normally; a name of 31
\* bytes is registered
C25_RejectedNames ==
  /\ [][RejectedEnableStep]_vars
  /\ [](\A t \in Threads :
          /\ (call[t].op = "enable_module" /\ RejectedName(call[t].arg))
               => (pc[t] = "ret" /\ line[t] = << >>)
          /\ (call[t].op = "enable_module" /\ pc[t] = "ret"
                /\ Len(call[t].arg) = 31)
               => (Registered(g_modules, call[t].arg)
                     /\ g_modules.filter_active = 1
                     /\ g_modules_set_explicitly = 1))

\* a 32-byte name was refused before anything read CT_DEBUG
C25_Witness ==
  /\ pc[1] = "ret" /\ call[1].op = "enable_module" /\ Len(call[1].arg) = 32
  /\ env.CT_DEBUG.set /\ g_init_once = "INIT"
  /\ g_modules_set_explicitly = 0 /\ g_modules.count = 0

\* C26: while thread safety has never been switched off, the fallback string
\* of a call whose rendering failed is never written between the first and
\* the last sink write of another thread's line
C26_FallbackOutsideLines ==
  ~hist.ts_off =>
    \A o \in hist.overlap : o[3] # "fallback"

\* C27: when disable_module(x) removes the only registered name, filter_active
\* becomes 0, module_is_enabled holds of every name, x included, and a call
\* tagged with any name is emitted again; when names remain after
\* disable_module(x), module_is_enabled(x) is false
C27_LastRemovalOpensFilter ==
  \A t \in Threads :
    /\ (pc[t] = "ret" /\ call[t].op = "disable_module" /\ loc[t].had = 1
          /\ g_modules.count = 0) =>
         /\ g_modules.filter_active = 0
         /\ \A name \in FilterTags \cup {call[t].arg} :
              module_lookup(g_modules, name)
    /\ (pc[t] = "ret" /\ call[t].op = "disable_module" /\ call[t].arg # << >>
          /\ g_modules.count > 0) =>
         ~module_lookup(g_modules, call[t].arg)
    /\ (LogReturned(t) /\ call[t].tagged /\ g_modules.count = 0
          /\ loc[t].en = 1 /\ call[t].level >= loc[t].min
          /\ loc[t].render = "ok") => LineEmitted(t)

\* disable_module(alloc) removed the only name of the table
C27_Witness ==
  /\ pc[1] = "ret" /\ call[1].op = "disable_module" /\ call[1].arg = s_alloc
  /\ loc[1].had = 1
  /\ g_modules.count = 0 /\ g_modules.filter_active = 0

\* the registered names, in table order
TableSeq(m) == [i \in 1..m.count |-> NameAt(m, i)]

\* the sequence s without the entries equal to x
Without(s, x) == LET Other(n) == n # x IN SelectSeq(s, Other)

\* the removal of a present name deletes that name only and keeps the order;
\* the insertion of a new name puts it at the end
TableEditStep ==
  \A t \in Threads :
    /\ (pc[t] = "dm_remove" /\ pc'[t] = "ret" /\ Registered(g_modules, call[t].arg)) =>
         /\ TableSeq(g_modules') = Without(TableSeq(g_modules), call[t].arg)
         /\ g_modules'.count = g_modules.count - 1
         /\ Len(g_modules'.names) = g_modules'.count
    /\ (pc[t] = "em_add" /\ pc'[t] = "ret" /\ ~Registered(g_modules, call[t].arg)
          /\ g_modules.count < MAX_MODULES) =>
         /\ TableSeq(g_modules') = Append(TableSeq(g_modules), call[t].arg)
         /\ g_modules'.count = g_modules.count + 1

\* C28: disable_module(x) with x present leaves the table it found with x
\* deleted, the other names in their order and the count one less;
\* enable_module of a new name appends it at the end
C28_RemovesExactlyOne == [][TableEditStep]_vars

\* alloc and trace were seeded, network was appended, alloc was removed
C28_Witness ==
  /\ env.CT_DEBUG = SetTo(s_env_alloc_trace) /\ hist.seeded = 2
  /\ pc[1] = "ret" /\ call[1].op = "disable_module" /\ call[1].arg = s_alloc
  /\ loc[1].had = 1
  /\ TableSeq(g_modules) = << s_trace, s_network >>

\* ------------------------------------------------------------------------
\*  SpecTear: two threads set the prefix while a third logs
\* ------------------------------------------------------------------------

PrefixSetters == {2, 3}

NextTear ==
  \/ log(1, Info, FALSE, s_empty)
  \/ LineSteps(1)
  \/ \E t \in PrefixSetters, p \in StressPrefixes : set_prefix(t, p)
  \/ \E t \in PrefixSetters : sp_lock(t)
  \/ \E t \in PrefixSetters : sp_copy(t)
  \/ \E t \in PrefixSetters : sp_len(t)
  \/ \E t \in PrefixSetters : Return(t)

SpecTear == InitLines /\ [][NextTear]_vars

\* the default prefix and the arguments of the set_prefix calls
CompletePrefixes == {s_default_prefix} \cup StressPrefixes

\* the places of write_log_line after read_prefix_snapshot
AfterSnapshotPcs == {"wl_guard", "wl_output_lock"} \cup OutputLockPcs

\* the snapshot of a line and the writes it has made stay as they are
SnapshotKeptStep ==
  \A t \in Threads :
    (pc[t] \in AfterSnapshotPcs /\ pc'[t] \in AfterSnapshotPcs \cup {"ret"}) =>
      /\ loc'[t].snap = loc[t].snap
      /\ SubSeq(line'[t], 1, Len(line[t])) = line[t]

\* C29: the prefix field of a line is the default prefix or the whole
\* argument of one set_prefix call, never bytes or a length of two calls, and
\* a set_prefix made after the snapshot of a line leaves that line alone
C29_PrefixNeverTorn ==
  /\ [](\A t \in Threads :
          /\ pc[t] \in AfterSnapshotPcs => loc[t].snap \in CompletePrefixes
          /\ (call[t].op = "log" /\ loc[t].render = "ok" /\ Len(line[t]) >= 5) =>
               (line[t][5].data = loc[t].snap
                  /\ line[t][5].data \in CompletePrefixes))
  /\ [][SnapshotKeptStep]_vars

\* a whole line carries ==alpha== although ==beta== is the prefix by now
C29_Witness ==
  /\ LogReturned(1) /\ LineEmitted(1)
  /\ line[1][5].data = s_alpha
  /\ CStr(g_prefix_buf) = s_beta /\ g_prefix_len = 8 /\ g_state_mutex = 0

\* the places of write_log_line where the guard has read the flag
GuardedPcs == {"wl_output_lock"} \cup OutputLockPcs

\* the flag is read once; the output lock changes hands only when a thread
\* that read 1 takes the free lock or gives back the lock it holds
OutputLockStep ==
  /\ \A t \in Threads :
       (pc[t] \in GuardedPcs /\ pc'[t] # "idle") => loc'[t].locked = loc[t].locked
  /\ g_output_mutex' # g_output_mutex =>
       \E t \in Threads :
         \/ /\ pc[t] = "wl_output_lock" /\ loc[t].locked = 1
            /\ g_output_mutex = 0 /\ g_output_mutex' = t
         \/ /\ pc[t] = "wl_output_unlock" /\ loc[t].locked = 1
            /\ g_output_mutex = t /\ g_output_mutex' = 0

\* C30: a line emission reads the thread-safe flag once, at its start; it
\* holds the output lock while it writes exactly when that read was 1, gives
\* it back at the end exactly when it took it, never unlocks a lock it does
\* not hold and never returns with the lock held, whatever set_thread_safe
\* does in the meantime
C30_OutputLockDiscipline ==
  /\ [](\A t \in Threads :
          /\ pc[t] \in OutputLockPcs =>
               (loc[t].locked \in {0, 1}
                  /\ (loc[t].locked = 1 <=> g_output_mutex = t))
          /\ pc[t] \notin OutputLockPcs => g_output_mutex # t)
  /\ [][OutputLockStep]_vars

\* thread 1 read the flag as 0 and wrote in the middle of the line of thread
\* 2, which read 1 and holds the output lock; the flag is 1 again
C30_Witness ==
  /\ << 1, 2, "line" >> \in hist.overlap
  /\ loc[1].locked = 0 /\ MidLine(1)
  /\ loc[2].locked = 1 /\ MidLine(2) /\ g_output_mutex = 2
  /\ g_thread_safe = 1

\* ------------------------------------------------------------------------
\*  SpecGetters: one thread mixes the getters with the calls of Spec
\* ------------------------------------------------------------------------

NextGetters ==
  \/ min_level(1)
  \/ \E name \in FilterNames : module_is_enabled(1, name)
  \/ mie_lock(1)
  \/ mie_check(1)
  \/ enable_logging(1)
  \/ \E level \in Levels : set_min_level(1, level)
  \/ sml_store(1)
  \/ \E name \in FilterNames : enable_module(1, name)
  \/ \E name \in FilterNames : disable_module(1, name)
  \/ enable_all_modules(1)
  \/ \E level \in Levels, tagged \in BOOLEAN, mod \in {s_empty, s_network} :
       log(1, level, tagged, mod)
  \/ InitSteps(1)
  \/ ModuleSteps(1)
  \/ LogSteps(1)
  \/ Return(1)

SpecGetters == Init /\ [][NextGetters]_vars

GetterOps == {"min_level", "module_is_enabled"}

\* the calls that go through init_once()
InitOps == {"log", "set_min_level"} \cup ExplicitModuleOps

\* a step of a getter changes nothing but the state lock, which it has given
\* back when it returns; the one-time init guard moves only in a step of a
\* log, set_min_level, enable_module, disable_module or enable_all_modules
GetterStep ==
  \A t \in Threads :
    /\ (call'[t].op \in GetterOps) =>
         /\ UNCHANGED << g_log_enabled, g_prefix_buf, g_prefix_len, g_min_level,
                         g_min_level_set_explicitly, g_modules,
                         g_modules_set_explicitly, g_output_mutex, g_thread_safe,
                         g_sink, g_timestamps_enabled, g_source_location_enabled,
                         g_init_once, env, line >>
         /\ hist'.init_runs = hist.init_runs
         /\ pc'[t] = "ret" => g_state_mutex' = 0
    /\ (pc'[t] # pc[t] /\ g_init_once' # g_init_once) => call[t].op \in InitOps

\* C31: min_level() and module_is_enabled() never run the one-time init and
\* change no state; while the init has not run, min_level() returns Info and
\* module_is_enabled(n) returns true for every n, whatever CT_LOG_LEVEL and
\* CT_DEBUG hold; the init is started only by log, set_min_level,
\* enable_module, disable_module and enable_all_modules
C31_GettersDoNotInit ==
  /\ [][GetterStep]_vars
  /\ [](\A t \in Threads :
          (pc[t] = "ret" /\ g_init_once = "INIT") =>
            /\ call[t].op = "min_level" => loc[t].result = Info
            /\ call[t].op = "module_is_enabled" => loc[t].result = 1)

\* module_is_enabled(network) returned true with CT_LOG_LEVEL=WARN and
\* CT_DEBUG=alloc,,trace set and the environment still unread
C31_Witness ==
  /\ pc[1] = "ret" /\ call[1].op = "module_is_enabled"
  /\ call[1].arg = s_network /\ loc[1].result = 1
  /\ env.CT_LOG_LEVEL = SetTo(s_WARN) /\ env.CT_DEBUG = SetTo(s_env_alloc_trace)
  /\ g_init_once = "INIT" /\ g_modules.count = 0 /\ g_min_level = Info

\* |4242| ==ct== [LEVEL] hi
PlainLine(level) ==
  PidText \o << " " >> \o s_default_prefix \o << " " >> \o LevelText(level)
  \o << " " >> \o s_msg

\* what a log call without a module name does, whichever overload made it
NoTagOutcome(t) ==
  /\ pc[t] \notin {"log_module_lock", "log_module_check"}
  /\ loc[t].modok = -1
  /\ LogReturned(t) =>
       /\ (loc[t].en = 1 /\ call[t].level >= loc[t].min) <=> loc[t].render # "none"
       /\ loc[t].render \in {"none", "empty"} => line[t] = << >>
       /\ loc[t].render = "ok" =>
            (Len(line[t]) = 11 /\ Bytes(line[t]) = PlainLine(call[t].level))

====
